---- MODULE Spec2Model ----
(***************************************************************************)
(* MLPCpp: evaluation of multi-layer perceptrons (CNeuralNetwork, CLayer), *)
(* and the input-output map that pairs caller variables with the networks  *)
(* of a collection (CIOMap).                                               *)
(*                                                                         *)
(* Vectors keep the 0-based indices of the source: a std::vector of size n *)
(* is a function with domain 0..n-1.  Layers live on a heap (`layers`) and *)
(* the CLayer* fields hold heap addresses 1,2,...; 0 is nullptr.           *)
(* Floating-point values are fixed-point numbers in units of 1/SCALE.      *)
(***************************************************************************)
EXTENDS Integers, Sequences, FiniteSets, TLC

VARIABLES
    net,            \* the CNeuralNetwork object
    build,          \* position in the builder sequence of the network
    oob,            \* a layer that does not exist has been read
    call,           \* arguments of the last Predict call
    prev_call,      \* the same for the call before it
    before,         \* the CNeuralNetwork object as it was before the last call
    n_calls,        \* number of Predict calls made so far
    MLP_collection, \* CLookUp_ANN: the variable names of each loaded network
    call_inputs,    \* `inputs` handed to the CIOMap constructor
    call_outputs,   \* `outputs` handed to the CIOMap constructor
    MLP_indices,    \* CIOMap::MLP_indices
    Input_Map,      \* CIOMap::Input_Map
    Output_Map,     \* CIOMap::Output_Map
    map_pc,         \* "start" before the CIOMap constructor, "constructed" after
    n_input_checks, \* calls of CheckUseOfInputs so far
    n_output_checks,\* calls of CheckUseOfOutputs so far
    config_error,   \* a check reported a configuration error
    file,           \* the .mlp file handed to CReadNeuralNetwork
    reader,         \* the CReadNeuralNetwork object and its file stream
    weights_set,    \* the value last handed to SetWeight for each (l, i, j)
    n_sets,         \* number of SetWeight calls made on the built network
    threads,        \* the Predict call of each thread: position and locals
    overlapped      \* a thread entered Predict while another was inside it

netvars == <<net, build, oob, call, prev_call, before, n_calls>>

mapvars == <<MLP_collection, call_inputs, call_outputs, MLP_indices, Input_Map,
             Output_Map, map_pc, n_input_checks, n_output_checks, config_error>>

readvars == <<file, reader>>

setvars == <<weights_set, n_sets>>

thrvars == <<threads, overlapped>>

vars == <<netvars, mapvars, readvars, setvars, thrvars>>

(***************************************************************************)
(* Bounds of the model.                                                    *)
(***************************************************************************)
MaxNeurons == 3
MaxHidden == 2
MaxCalls == 3
MaxNets == 2
MaxSets == 1

(***************************************************************************)
(* mlpdouble / su2double arithmetic, in units of 1/SCALE.                  *)
(***************************************************************************)
SCALE == 1000

Abs(a) == IF a < 0 THEN -a ELSE a

RoundDiv(n, d) ==
    LET s == IF (n < 0) = (d < 0) THEN 1 ELSE -1
        q == (2 * Abs(n) + Abs(d)) \div (2 * Abs(d))
    IN  s * q

Mul(a, b) == RoundDiv(a * b, SCALE)

Div(a, b) == RoundDiv(a * SCALE, b)

Size(v) == Cardinality(DOMAIN v)

EmptyVec == [i \in {} |-> 0]

\* std::vector::resize: elements that exist are kept, new ones are
\* value-initialised with `fill`
Resize(v, n, fill) ==
    [i \in 0..(n - 1) |-> IF i \in DOMAIN v THEN v[i] ELSE fill]

PushBack(v, x) == [i \in 0..Size(v) |-> IF i \in DOMAIN v THEN v[i] ELSE x]

RECURSIVE SumUpTo(_, _)
SumUpTo(f, n) == IF n < 0 THEN 0 ELSE f[n] + SumUpTo(f, n - 1)

(***************************************************************************)
(* CNeuron and CLayer.                                                     *)
(***************************************************************************)
CNeuron == [output |-> 0, input |-> 0, bias |-> 0, doutput_dinputs |-> EmptyVec]

CLayer(n_neurons) ==
    [number_of_neurons |-> n_neurons,
     is_input |-> FALSE,
     neurons |-> [i \in 0..(n_neurons - 1) |-> CNeuron]]

SizeGradient(neuron, nInputs) ==
    [neuron EXCEPT !.doutput_dinputs = Resize(neuron.doutput_dinputs, nInputs, 0)]

SizeGradients(layer, nInputs) ==
    [layer EXCEPT !.neurons =
        [i \in DOMAIN layer.neurons |-> SizeGradient(layer.neurons[i], nInputs)]]

GetNNeurons(layer) == layer.number_of_neurons

(***************************************************************************)
(* CNeuralNetwork: construction.                                           *)
(***************************************************************************)
NewNetwork ==
    [input_names |-> EmptyVec, output_names |-> EmptyVec,
     n_hidden_layers |-> 0,
     inputLayer |-> 0, outputLayer |-> 0,
     hiddenLayers |-> EmptyVec, total_layers |-> EmptyVec,
     weights_mat |-> EmptyVec,
     input_norm |-> EmptyVec, output_norm |-> EmptyVec,
     last_inputs |-> EmptyVec,
     ANN_outputs |-> EmptyVec,
     dOutputs_dInputs |-> EmptyVec,
     activation_function_types |-> EmptyVec,
     layers |-> <<>>,
     evaluations |-> 0]   \* instrumentation: layers evaluated by Predict so far

\* new CLayer(n_neurons): the address of the new layer is Len(layers) + 1
NewLayer(n, n_neurons) == [n EXCEPT !.layers = Append(n.layers, CLayer(n_neurons))]

DefineInputLayer(n, n_neurons) ==
    LET m == NewLayer(n, n_neurons)
        id == Len(m.layers)
    IN  [m EXCEPT !.inputLayer = id,
                  !.layers[id].is_input = TRUE,
                  !.input_norm = Resize(n.input_norm, n_neurons, <<0, 0>>),
                  !.input_names = Resize(n.input_names, n_neurons, "")]

DefineOutputLayer(n, n_neurons) ==
    LET m == NewLayer(n, n_neurons)
        id == Len(m.layers)
    IN  [m EXCEPT !.outputLayer = id,
                  !.output_norm = Resize(n.output_norm, n_neurons, <<0, 0>>),
                  !.output_names = Resize(n.output_names, n_neurons, "")]

PushHiddenLayer(n, n_neurons) ==
    LET m == NewLayer(n, n_neurons)
        id == Len(m.layers)
    IN  [m EXCEPT !.hiddenLayers = PushBack(n.hiddenLayers, id),
                  !.n_hidden_layers = n.n_hidden_layers + 1]

\* hiddenLayers[iLayer]->GetNNeurons(); outside the vector the read is
\* undefined and yields `junk`
HiddenNNeurons(n, iLayer, junk) ==
    IF iLayer \in DOMAIN n.hiddenLayers
    THEN GetNNeurons(n.layers[n.hiddenLayers[iLayer]])
    ELSE junk

\* does SizeWeights read hiddenLayers outside its bounds?
SizeWeightsReadsOutside(n) ==
    \/ 0 \notin DOMAIN n.hiddenLayers
    \/ (n.n_hidden_layers - 1) \notin DOMAIN n.hiddenLayers

ZeroRow(len) == [j \in 0..(len - 1) |-> 0]

\* rows of one weight matrix: resize to `rows`, then every row to `cols`
SizedMatrix(old, rows, cols) ==
    LET r == Resize(old, rows, EmptyVec)
    IN  [i \in DOMAIN r |-> Resize(r[i], cols, 0)]

SizeWeights(n, junk0, junk1, outputs_junk) ==
    LET nIn == GetNNeurons(n.layers[n.inputLayer])
        nOut == GetNNeurons(n.layers[n.outputLayer])
        nh == n.n_hidden_layers
        total == [i \in 0..(nh + 1) |->
                    IF i = 0 THEN n.inputLayer
                    ELSE IF i = nh + 1 THEN n.outputLayer
                    ELSE n.hiddenLayers[i - 1]]
        w0 == Resize(n.weights_mat, nh + 1, EmptyVec)
        \* weights_mat[0]
        w1 == [w0 EXCEPT ![0] = SizedMatrix(w0[0], HiddenNNeurons(n, 0, junk0), nIn)]
        \* weights_mat[1 .. n_hidden_layers-1]
        w2 == [l \in DOMAIN w1 |->
                 IF l >= 1 /\ l < nh
                 THEN SizedMatrix(w1[l], HiddenNNeurons(n, l, 0),
                                  HiddenNNeurons(n, l - 1, 0))
                 ELSE w1[l]]
        \* weights_mat[n_hidden_layers]
        w3 == [w2 EXCEPT ![nh] =
                 SizedMatrix(w2[nh], nOut, HiddenNNeurons(n, nh - 1, junk1))]
    IN  [n EXCEPT
          !.total_layers = total,
          !.weights_mat = w3,
          !.ANN_outputs = [o \in 0..(nOut - 1) |-> outputs_junk],
          !.dOutputs_dInputs = [o \in 0..(nOut - 1) |-> ZeroRow(nIn)],
          !.layers = [id \in DOMAIN n.layers |->
                        IF \E i \in DOMAIN total : total[i] = id
                        THEN SizeGradients(n.layers[id], nIn)
                        ELSE n.layers[id]]]

(***************************************************************************)
(* CNeuralNetwork: setters used after SizeWeights.                         *)
(***************************************************************************)
\* the write with the two neuron indices in the order of the arguments
SetWeightByArgumentOrder(n, i_layer, i_neuron, j_neuron, value) ==
    [n EXCEPT !.weights_mat[i_layer][i_neuron][j_neuron] = value]

SetWeight(n, i_layer, i_neuron, j_neuron, value) ==
    [n EXCEPT !.weights_mat[i_layer][j_neuron][i_neuron] = value]

SetBias(n, i_layer, i_neuron, value) ==
    [n EXCEPT !.layers[n.total_layers[i_layer]].neurons[i_neuron].bias = value]

SetInputNorm(n, iInput, input_min, input_max) ==
    [n EXCEPT !.input_norm[iInput] = <<input_min, input_max>>]

SetOutputNorm(n, iOutput, output_min, output_max) ==
    [n EXCEPT !.output_norm[iOutput] = <<output_min, output_max>>]

SetInputName(n, iInput, input) == [n EXCEPT !.input_names[iInput] = input]

SetOutputName(n, iOutput, input) == [n EXCEPT !.output_names[iOutput] = input]

SizeInputs(n, n_inputs) ==
    [n EXCEPT !.last_inputs = [iInput \in 0..(n_inputs - 1) |-> 0]]

SizeActivationFunctions(n, n_layers) ==
    [n EXCEPT !.activation_function_types =
        Resize(n.activation_function_types, n_layers, "NONE")]

\* ENUM_ACTIVATION_FUNCTION
ActivationKinds ==
    {"NONE", "LINEAR", "RELU", "ELU", "GELU", "SELU", "SIGMOID", "SWISH", "TANH",
     "EXPONENTIAL"}

\* activation_function_map: name in the file -> enumeration value
activation_function_map ==
    [name \in {"none", "linear", "elu", "relu", "gelu", "selu", "sigmoid", "swish",
               "tanh", "exponential"} |->
        CASE name = "none" -> "NONE"
          [] name = "linear" -> "LINEAR"
          [] name = "elu" -> "ELU"
          [] name = "relu" -> "RELU"
          [] name = "gelu" -> "GELU"
          [] name = "selu" -> "SELU"
          [] name = "sigmoid" -> "SIGMOID"
          [] name = "swish" -> "SWISH"
          [] name = "tanh" -> "TANH"
          [] name = "exponential" -> "EXPONENTIAL"]

SetActivationFunction(n, i_layer, input) ==
    [n EXCEPT !.activation_function_types[i_layer] = activation_function_map[input]]

(***************************************************************************)
(* <cmath>: exp, tanh, cosh, pow on fixed-point values.                    *)
(***************************************************************************)
\* Taylor terms of exp, kept in units of 1/(100*SCALE)
RECURSIVE ExpSeries(_, _, _)
ExpSeries(x, k, term) ==
    IF term = 0 \/ k > 30 THEN 0
    ELSE term + ExpSeries(x, k + 1, RoundDiv(term * x, (k + 1) * SCALE))

RECURSIVE Exp(_)
Exp(x) ==
    IF Abs(x) > 2 * SCALE
    THEN Mul(Exp(x \div 2), Exp(x - (x \div 2)))
    ELSE RoundDiv(ExpSeries(x, 0, 100 * SCALE), 100)

Tanh(x) ==
    LET e2 == Exp(2 * Abs(x))
        t == Div(e2 - SCALE, e2 + SCALE)
    IN  IF x < 0 THEN -t ELSE t

Cosh(x) == RoundDiv(Exp(x) + Exp(-x), 2)

Pow2(x) == Mul(x, x)

Pow3(x) == Mul(Mul(x, x), x)

(***************************************************************************)
(* Activation functions of Predict: y and dy/dx of each case of the switch.*)
(***************************************************************************)
alpha == 1673
lambda == 1051
GeluY_a == 798
GeluY_b == 45
GeluD_a == 36
GeluD_b == 798
GeluD_c == 107

\* y, as the case of `kind` assigns it from the neuron input x
ActivationY(kind, x) ==
    CASE kind = "ELU" -> IF x > 0 THEN x ELSE Exp(x) - SCALE
      [] kind = "LINEAR" -> x
      [] kind = "EXPONENTIAL" -> Exp(x)
      [] kind = "RELU" -> IF x > 0 THEN x ELSE 0
      [] kind = "SWISH" -> Div(x, SCALE + Exp(-x))
      [] kind = "TANH" -> Tanh(x)
      [] kind = "SIGMOID" -> Div(SCALE, SCALE + Exp(-x))
      [] kind = "SELU" ->
            IF x > 0 THEN Mul(lambda, x)
            ELSE Mul(Mul(lambda, alpha), Exp(x) - SCALE)
      [] kind = "GELU" ->
            Mul(Mul(SCALE \div 2, x),
                SCALE + Tanh(Mul(GeluY_a, x + Mul(GeluY_b, Pow3(x)))))
      [] kind = "NONE" -> 0

\* dy_dx with the relu slope 1 at x = 0
ActivationdYdXReluAtZero(kind, x) ==
    CASE kind = "ELU" -> IF x > 0 THEN SCALE ELSE Exp(x)
      [] kind = "LINEAR" -> SCALE
      [] kind = "EXPONENTIAL" -> SCALE
      [] kind = "RELU" -> IF x >= 0 THEN SCALE ELSE 0
      [] kind = "SWISH" ->
            Div(Mul(Exp(x), x + Exp(x) + SCALE), Pow2(Exp(x) + SCALE))
      [] kind = "TANH" -> Div(SCALE, Pow2(Cosh(x)))
      [] kind = "SIGMOID" -> Div(Exp(-x), Pow2(Exp(-x) + SCALE))
      [] kind = "SELU" ->
            IF x > 0 THEN lambda ELSE Mul(Mul(lambda, alpha), Exp(x))
      [] kind = "GELU" ->
            LET u == Mul(GeluD_a, Pow3(x)) + Mul(GeluD_b, x)
                v == Mul(GeluD_c, Pow3(x)) + Mul(GeluD_b, x)
            IN  Mul(SCALE \div 2,
                    Tanh(u) + Mul(Mul(v, Div(SCALE, Pow2(Cosh(x)))), u))
      [] kind = "NONE" -> 0

\* dy_dx, as the case of `kind` assigns it when compute_gradient is set
ActivationdYdX(kind, x) ==
    CASE kind = "ELU" -> IF x > 0 THEN SCALE ELSE Exp(x)
      [] kind = "LINEAR" -> SCALE
      [] kind = "EXPONENTIAL" -> SCALE
      [] kind = "RELU" -> IF x > 0 THEN SCALE ELSE 0
      [] kind = "SWISH" ->
            Div(Mul(Exp(x), x + Exp(x) + SCALE), Pow2(Exp(x) + SCALE))
      [] kind = "TANH" -> Div(SCALE, Pow2(Cosh(x)))
      [] kind = "SIGMOID" -> Div(Exp(-x), Pow2(Exp(-x) + SCALE))
      [] kind = "SELU" ->
            IF x > 0 THEN lambda ELSE Mul(Mul(lambda, alpha), Exp(x))
      [] kind = "GELU" ->
            LET u == Mul(GeluD_a, Pow3(x)) + Mul(GeluD_b, x)
                v == Mul(GeluD_c, Pow3(x)) + Mul(GeluD_b, x)
            IN  Mul(SCALE \div 2,
                    Tanh(u) + Mul(Mul(v, Div(SCALE, Pow2(Cosh(x)))), u))
      [] kind = "NONE" -> 0

(***************************************************************************)
(* CNeuralNetwork::Predict.                                                *)
(***************************************************************************)
InputLayerOf(n) == n.layers[n.inputLayer]

OutputLayerOf(n) == n.layers[n.outputLayer]

\* total_layers[iLayer]
TotalLayer(n, iLayer) == n.layers[n.total_layers[iLayer]]

NInputs(n) == GetNNeurons(InputLayerOf(n))

NOutputs(n) == GetNNeurons(OutputLayerOf(n))

ComputeX(n, iLayer, iNeuron) ==
    LET prev == TotalLayer(n, iLayer - 1)
        nNeurons_previous == GetNNeurons(prev)
        terms == [jNeuron \in 0..(nNeurons_previous - 1) |->
                    Mul(n.weights_mat[iLayer - 1][iNeuron][jNeuron],
                        prev.neurons[jNeuron].output)]
    IN  TotalLayer(n, iLayer).neurons[iNeuron].bias
          + SumUpTo(terms, nNeurons_previous - 1)

ComputedOutputdInput(n, iLayer, iNeuron, iInput) ==
    LET prev == TotalLayer(n, iLayer - 1)
        terms == [jNeuron \in 0..(GetNNeurons(prev) - 1) |->
                    Mul(n.weights_mat[iLayer - 1][iNeuron][jNeuron],
                        prev.neurons[jNeuron].doutput_dinputs[iInput])]
    IN  SumUpTo(terms, GetNNeurons(prev) - 1)

\* x_norm with the span taken as the upper bound alone
NormalizedInputByMax(n, inputs, iNeuron) ==
    Div(inputs[iNeuron] - n.input_norm[iNeuron][1], n.input_norm[iNeuron][2])

\* x_norm of the first loop of Predict
NormalizedInput(n, inputs, iNeuron) ==
    Div(inputs[iNeuron] - n.input_norm[iNeuron][1],
        n.input_norm[iNeuron][2] - n.input_norm[iNeuron][1])

\* same_point as left by the last input alone
SamePointOfLastInput(n, inputs) ==
    LET iNeuron == NInputs(n) - 1
    IN  ~ (Abs(NormalizedInput(n, inputs, iNeuron)
                 - InputLayerOf(n).neurons[iNeuron].output) > 0)

\* same_point after the first loop of Predict
SamePoint(n, inputs) ==
    \A iNeuron \in 0..(NInputs(n) - 1) :
        ~ (Abs(NormalizedInput(n, inputs, iNeuron)
                 - InputLayerOf(n).neurons[iNeuron].output) > 0)

\* the first loop of Predict with a gradient of 1 for every input
NormalizeInputsUnitSeed(n, inputs, compute_gradient) ==
    [n EXCEPT !.layers[n.inputLayer].neurons =
        [iNeuron \in 0..(NInputs(n) - 1) |->
            LET old == InputLayerOf(n).neurons[iNeuron]
            IN  [old EXCEPT
                   !.output = NormalizedInput(n, inputs, iNeuron),
                   !.doutput_dinputs =
                       IF compute_gradient
                       THEN [old.doutput_dinputs EXCEPT ![iNeuron] = SCALE]
                       ELSE old.doutput_dinputs]]]

\* the first loop of Predict: normalized inputs and input-layer gradient
NormalizeInputs(n, inputs, compute_gradient) ==
    [n EXCEPT !.layers[n.inputLayer].neurons =
        [iNeuron \in 0..(NInputs(n) - 1) |->
            LET old == InputLayerOf(n).neurons[iNeuron]
            IN  [old EXCEPT
                   !.output = NormalizedInput(n, inputs, iNeuron),
                   !.doutput_dinputs =
                       IF compute_gradient
                       THEN [old.doutput_dinputs EXCEPT ![iNeuron] =
                               Div(SCALE, n.input_norm[iNeuron][2]
                                            - n.input_norm[iNeuron][1])]
                       ELSE old.doutput_dinputs]]]

\* one pass of the loop over iLayer: neuron inputs (and the gradients of the
\* inputs), then the switch on the activation function of the layer
EvaluateLayer(n, iLayer, compute_gradient) ==
    LET cur == TotalLayer(n, iLayer)
        kind == n.activation_function_types[iLayer]
        inputs_set ==
            [iNeuron \in 0..(GetNNeurons(cur) - 1) |->
                [cur.neurons[iNeuron] EXCEPT
                   !.input = ComputeX(n, iLayer, iNeuron),
                   !.doutput_dinputs =
                       IF compute_gradient
                       THEN [iInput \in 0..(NInputs(n) - 1) |->
                               ComputedOutputdInput(n, iLayer, iNeuron, iInput)]
                       ELSE cur.neurons[iNeuron].doutput_dinputs]]
        activated ==
            [iNeuron \in DOMAIN inputs_set |->
                LET nrn == inputs_set[iNeuron]
                IN  [nrn EXCEPT
                       !.output = ActivationY(kind, nrn.input),
                       !.doutput_dinputs =
                           IF compute_gradient
                           THEN [iInput \in DOMAIN nrn.doutput_dinputs |->
                                   Mul(ActivationdYdX(kind, nrn.input),
                                       nrn.doutput_dinputs[iInput])]
                           ELSE nrn.doutput_dinputs]]
    IN  [n EXCEPT !.layers[n.total_layers[iLayer]].neurons = activated,
                  !.evaluations = n.evaluations + 1]

\* the loop for (iLayer = 1; iLayer < n_hidden_layers + 2; iLayer++)
RECURSIVE Traverse(_, _, _)
Traverse(n, iLayer, compute_gradient) ==
    IF iLayer < n.n_hidden_layers + 2
    THEN Traverse(EvaluateLayer(n, iLayer, compute_gradient), iLayer + 1,
                  compute_gradient)
    ELSE n

\* the last loop of Predict with the gradient block outside its `if`
DenormalizeWithGradient(n, compute_gradient) ==
    LET out == OutputLayerOf(n)
        scale(iNeuron) == n.output_norm[iNeuron][2] - n.output_norm[iNeuron][1]
        grads == [iNeuron \in 0..(NOutputs(n) - 1) |->
                    IF TRUE
                    THEN [iInput \in 0..(NInputs(n) - 1) |->
                            Mul(scale(iNeuron),
                                out.neurons[iNeuron].doutput_dinputs[iInput])]
                    ELSE out.neurons[iNeuron].doutput_dinputs]
    IN  [n EXCEPT
          !.layers[n.outputLayer].neurons =
              [iNeuron \in 0..(NOutputs(n) - 1) |->
                  [out.neurons[iNeuron] EXCEPT !.doutput_dinputs = grads[iNeuron]]],
          !.dOutputs_dInputs =
              grads,
          !.ANN_outputs =
              [iNeuron \in 0..(NOutputs(n) - 1) |->
                  Mul(out.neurons[iNeuron].output, scale(iNeuron))
                    + n.output_norm[iNeuron][1]]]

\* the last loop of Predict: de-normalized outputs and output gradients
Denormalize(n, compute_gradient) ==
    LET out == OutputLayerOf(n)
        scale(iNeuron) == n.output_norm[iNeuron][2] - n.output_norm[iNeuron][1]
        grads == [iNeuron \in 0..(NOutputs(n) - 1) |->
                    IF compute_gradient
                    THEN [iInput \in 0..(NInputs(n) - 1) |->
                            Mul(scale(iNeuron),
                                out.neurons[iNeuron].doutput_dinputs[iInput])]
                    ELSE out.neurons[iNeuron].doutput_dinputs]
    IN  [n EXCEPT
          !.layers[n.outputLayer].neurons =
              [iNeuron \in 0..(NOutputs(n) - 1) |->
                  [out.neurons[iNeuron] EXCEPT !.doutput_dinputs = grads[iNeuron]]],
          !.dOutputs_dInputs =
              IF compute_gradient THEN grads ELSE n.dOutputs_dInputs,
          !.ANN_outputs =
              [iNeuron \in 0..(NOutputs(n) - 1) |->
                  Mul(out.neurons[iNeuron].output, scale(iNeuron))
                    + n.output_norm[iNeuron][1]]]

Predict(n, inputs, compute_gradient) ==
    LET same_point == SamePoint(n, inputs)
        normalized == NormalizeInputs(n, inputs, compute_gradient)
        evaluated == IF ~ same_point
                     THEN Traverse(normalized, 1, compute_gradient)
                     ELSE normalized
    IN  Denormalize(evaluated, compute_gradient)

(***************************************************************************)
(* Construction of a network from a description: the builder sequence      *)
(* DefineInputLayer, PushHiddenLayer*, DefineOutputLayer, SizeWeights, then*)
(* the setters.  A description `d` holds neurons (neuron count per layer), *)
(* kinds (activation name per layer), weight[l][i][j] (from neuron i of    *)
(* layer l to neuron j of layer l+1), bias[l][i], input_norm, output_norm. *)
(***************************************************************************)
RECURSIVE PushHiddenLayers(_, _, _)
PushHiddenLayers(n, d, iLayer) ==
    IF iLayer < Size(d.neurons) - 1
    THEN PushHiddenLayers(PushHiddenLayer(n, d.neurons[iLayer]), d, iLayer + 1)
    ELSE n

\* all (i_layer, i_neuron, j_neuron) of the description
WeightIndices(d) ==
    UNION {{<<l, i, j>> : i \in 0..(d.neurons[l] - 1),
                          j \in 0..(d.neurons[l + 1] - 1)} :
           l \in 0..(Size(d.neurons) - 2)}

BiasIndices(d) ==
    UNION {{<<l, i>> : i \in 0..(d.neurons[l] - 1)} : l \in 0..(Size(d.neurons) - 1)}

RECURSIVE SetWeights(_, _, _)
SetWeights(n, d, todo) ==
    IF todo = {} THEN n
    ELSE LET t == CHOOSE t \in todo : TRUE
         IN  SetWeights(SetWeight(n, t[1], t[2], t[3], d.weight[t[1]][t[2]][t[3]]),
                        d, todo \ {t})

RECURSIVE SetBiases(_, _, _)
SetBiases(n, d, todo) ==
    IF todo = {} THEN n
    ELSE LET t == CHOOSE t \in todo : TRUE
         IN  SetBiases(SetBias(n, t[1], t[2], d.bias[t[1]][t[2]]), d, todo \ {t})

RECURSIVE SetActivationFunctions(_, _, _)
SetActivationFunctions(n, d, iLayer) ==
    IF iLayer < Size(d.neurons)
    THEN SetActivationFunctions(SetActivationFunction(n, iLayer, d.kinds[iLayer]),
                                d, iLayer + 1)
    ELSE n

RECURSIVE SetInputNorms(_, _, _)
SetInputNorms(n, d, iInput) ==
    IF iInput < d.neurons[0]
    THEN SetInputNorms(SetInputNorm(n, iInput, d.input_norm[iInput][1],
                                    d.input_norm[iInput][2]), d, iInput + 1)
    ELSE n

RECURSIVE SetOutputNorms(_, _, _)
SetOutputNorms(n, d, iOutput) ==
    IF iOutput < d.neurons[Size(d.neurons) - 1]
    THEN SetOutputNorms(SetOutputNorm(n, iOutput, d.output_norm[iOutput][1],
                                      d.output_norm[iOutput][2]), d, iOutput + 1)
    ELSE n

GenerateANN(d, outputs_junk) ==
    LET nLayers == Size(d.neurons)
        a == SizeInputs(DefineInputLayer(NewNetwork, d.neurons[0]), d.neurons[0])
        b == PushHiddenLayers(a, d, 1)
        c == DefineOutputLayer(b, d.neurons[nLayers - 1])
        e == SizeWeights(c, 0, 0, outputs_junk)
        f == SetWeights(SizeActivationFunctions(e, nLayers), d, WeightIndices(d))
        g == SetBiases(SetActivationFunctions(f, d, 0), d, BiasIndices(d))
    IN  SetOutputNorms(SetInputNorms(g, d, 0), d, 0)

(***************************************************************************)
(* The networks and the calls of the model.                                *)
(***************************************************************************)
Vec(seq) == [i \in 0..(Len(seq) - 1) |-> seq[i + 1]]

Topologies == {<<1, 1, 1>>, <<2, 2, 1>>, <<1, 2, 2>>}

HiddenKinds == {"linear", "relu"}

WeightPatterns == {"identity", "mixed"}

BiasValues == {0, SCALE}

NormBounds == {<<0, SCALE>>, <<SCALE, 3 * SCALE>>}

InputValues == {0, SCALE, 3 * SCALE}

\* what an uninitialised mlpdouble may hold
UninitValues == {0, 7 * SCALE}

WeightOf(pattern, l, i, j) ==
    IF pattern = "identity"
    THEN (IF i = j THEN SCALE ELSE 0)
    ELSE (IF (l + i + j) % 2 = 0 THEN 2 * SCALE ELSE -SCALE)

Description(t, kinds, pattern, b, inn, outn) ==
    [neurons |-> Vec(t),
     kinds |-> kinds,
     weight |-> [l \in 0..(Len(t) - 2) |->
                   [i \in 0..(t[l + 1] - 1) |->
                      [j \in 0..(t[l + 2] - 1) |-> WeightOf(pattern, l, i, j)]]],
     bias |-> [l \in 0..(Len(t) - 1) |->
                 [i \in 0..(t[l + 1] - 1) |-> IF l = 0 THEN 0 ELSE b]],
     input_norm |-> [i \in 0..(t[1] - 1) |-> inn],
     output_norm |-> [o \in 0..(t[Len(t)] - 1) |-> outn]]

\* the layers before the output layer use `hidden`, the output layer "linear"
KindsOf(t, hidden) ==
    [l \in 0..(Len(t) - 1) |-> IF l = Len(t) - 1 THEN "linear" ELSE hidden]

Descriptions ==
    {Description(t, KindsOf(t, k), p, b, inn, outn) :
        t \in Topologies, k \in HiddenKinds, p \in WeightPatterns,
        b \in BiasValues, inn \in NormBounds, outn \in NormBounds}

\* input vectors of a network with nIn inputs: all equal, or only the first set
InputVectors(nIn) ==
    {[i \in 0..(nIn - 1) |-> v] : v \in InputValues}
      \cup {[i \in 0..(nIn - 1) |-> IF i = 0 THEN SCALE ELSE 0]}

NoCall ==
    [made |-> FALSE, inputs |-> EmptyVec, compute_gradient |-> FALSE]

(***************************************************************************)
(* Spec: Predict calls on a built network.                                 *)
(***************************************************************************)
\* no CIOMap is under construction
NoMap ==
    /\ MLP_collection = EmptyVec
    /\ call_inputs = EmptyVec
    /\ call_outputs = EmptyVec
    /\ MLP_indices = EmptyVec
    /\ Input_Map = EmptyVec
    /\ Output_Map = EmptyVec
    /\ map_pc = "none"
    /\ n_input_checks = 0
    /\ n_output_checks = 0
    /\ config_error = FALSE

\* no thread is calling Predict
NoThreads ==
    /\ threads = <<>>
    /\ overlapped = FALSE

\* no file is being read
NoRead ==
    /\ file = [lines |-> <<>>, newline |-> TRUE, exists |-> FALSE]
    /\ reader = [status |-> "none"]

\* a network built from description d, before its first Predict call
Built(d, junk) ==
    /\ net = GenerateANN(d, junk)
    /\ weights_set = d.weight
    /\ n_sets = 0
    /\ build = "sized"
    /\ oob = FALSE
    /\ call = NoCall
    /\ prev_call = NoCall
    /\ before = net
    /\ n_calls = 0

Init ==
    /\ \E d \in Descriptions, junk \in UninitValues : Built(d, junk)
    /\ NoMap
    /\ NoRead
    /\ NoThreads

PredictCall(inputs, compute_gradient) ==
    /\ build = "sized"
    /\ n_calls < MaxCalls
    /\ net' = Predict(net, inputs, compute_gradient)
    /\ call' = [made |-> TRUE, inputs |-> inputs,
                compute_gradient |-> compute_gradient]
    /\ prev_call' = call
    /\ before' = net
    /\ n_calls' = n_calls + 1
    /\ UNCHANGED <<build, oob>>
    /\ UNCHANGED mapvars
    /\ UNCHANGED readvars
    /\ UNCHANGED setvars
    /\ UNCHANGED thrvars

Next ==
    \E inputs \in InputVectors(NInputs(net)), compute_gradient \in BOOLEAN :
        PredictCall(inputs, compute_gradient)

Spec == Init /\ [][Next]_vars

(***************************************************************************)
(* SpecWeights: SetWeight calls on a built network, then its first Predict.*)
(***************************************************************************)
WeightDescriptions ==
    {Description(t, KindsOf(t, k), p, b, <<0, SCALE>>, <<0, SCALE>>) :
        t \in Topologies, k \in HiddenKinds, p \in WeightPatterns, b \in BiasValues}

\* the values handed to SetWeight; none of them is a weight of a description
SetValues == {3 * SCALE, -2 * SCALE}

InitWeights ==
    /\ \E d \in WeightDescriptions, junk \in UninitValues : Built(d, junk)
    /\ NoMap
    /\ NoRead
    /\ NoThreads

\* weights_mat[i_layer][j_neuron][i_neuron] is an element of the tensor
InsideWeights(n, i_layer, i_neuron, j_neuron) ==
    /\ i_layer \in DOMAIN n.weights_mat
    /\ j_neuron \in DOMAIN n.weights_mat[i_layer]
    /\ i_neuron \in DOMAIN n.weights_mat[i_layer][j_neuron]

\* SetWeight(i_layer, i_neuron, j_neuron, value); a write outside the tensor
\* is undefined and lands outside the object
CallSetWeight(i_layer, i_neuron, j_neuron, value) ==
    /\ build = "sized"
    /\ n_calls = 0
    /\ n_sets < MaxSets
    /\ IF InsideWeights(net, i_layer, i_neuron, j_neuron)
       THEN /\ net' = SetWeight(net, i_layer, i_neuron, j_neuron, value)
            /\ oob' = oob
       ELSE /\ net' = net
            /\ oob' = TRUE
    /\ weights_set' = [weights_set EXCEPT ![i_layer][i_neuron][j_neuron] = value]
    /\ n_sets' = n_sets + 1
    /\ UNCHANGED <<build, call, prev_call, before, n_calls>>
    /\ UNCHANGED mapvars
    /\ UNCHANGED readvars
    /\ UNCHANGED thrvars

FirstPredictCall(inputs, compute_gradient) ==
    /\ n_calls = 0
    /\ PredictCall(inputs, compute_gradient)

NextWeights ==
    \/ \E i_layer \in 0..net.n_hidden_layers, value \in SetValues :
          \E i_neuron \in 0..(GetNNeurons(TotalLayer(net, i_layer)) - 1),
             j_neuron \in 0..(GetNNeurons(TotalLayer(net, i_layer + 1)) - 1) :
             CallSetWeight(i_layer, i_neuron, j_neuron, value)
    \/ \E inputs \in InputVectors(NInputs(net)), compute_gradient \in BOOLEAN :
          FirstPredictCall(inputs, compute_gradient)

SpecWeights == InitWeights /\ [][NextWeights]_vars

(***************************************************************************)
(* SpecThreads: two threads call Predict on the same network, each once,   *)
(* and read the outputs after their call.  A step of a thread is one pass  *)
(* of a loop over neurons of Predict; same_point and the loop counters are *)
(* locals of the call, the neurons and ANN_outputs belong to the network.  *)
(***************************************************************************)
Threads == {1, 2}

ThreadTopologies == {<<1, 1, 1>>, <<2, 2, 1>>}

ThreadDescriptions ==
    {Description(t, KindsOf(t, k), "mixed", SCALE, <<0, SCALE>>, outn) :
        t \in ThreadTopologies, k \in HiddenKinds, outn \in NormBounds}

IdleThread ==
    [pc |-> "idle", inputs |-> EmptyVec, compute_gradient |-> FALSE,
     same_point |-> TRUE, iLayer |-> 0, iNeuron |-> 0,
     outputs |-> EmptyVec, jacobian |-> EmptyVec,
     evaluated |-> FALSE]   \* instrumentation: a layer had been evaluated
                            \* when the outputs were read

InitThreads ==
    /\ \E d \in ThreadDescriptions : Built(d, 0)
    /\ threads = [t \in Threads |-> IdleThread]
    /\ overlapped = FALSE
    /\ NoMap
    /\ NoRead

\* one pass of the first loop of Predict
NormalizeInput(n, inputs, iNeuron, compute_gradient) ==
    LET old == InputLayerOf(n).neurons[iNeuron]
    IN  [n EXCEPT !.layers[n.inputLayer].neurons[iNeuron] =
            [old EXCEPT
               !.output = NormalizedInput(n, inputs, iNeuron),
               !.doutput_dinputs =
                   IF compute_gradient
                   THEN [old.doutput_dinputs EXCEPT ![iNeuron] =
                           Div(SCALE, n.input_norm[iNeuron][2]
                                        - n.input_norm[iNeuron][1])]
                   ELSE old.doutput_dinputs]]

\* abs(x_norm - inputLayer->GetOutput(iNeuron)) > 0
InputDiffers(n, inputs, iNeuron) ==
    Abs(NormalizedInput(n, inputs, iNeuron)
          - InputLayerOf(n).neurons[iNeuron].output) > 0

\* one pass of the loop that computes and stores the neuron inputs
SetNeuronInput(n, iLayer, iNeuron, compute_gradient) ==
    LET old == TotalLayer(n, iLayer).neurons[iNeuron]
    IN  [n EXCEPT !.layers[n.total_layers[iLayer]].neurons[iNeuron] =
            [old EXCEPT
               !.input = ComputeX(n, iLayer, iNeuron),
               !.doutput_dinputs =
                   IF compute_gradient
                   THEN [iInput \in 0..(NInputs(n) - 1) |->
                           ComputedOutputdInput(n, iLayer, iNeuron, iInput)]
                   ELSE old.doutput_dinputs]]

\* one pass of the loop of the activation case of the layer
ActivateNeuron(n, iLayer, iNeuron, compute_gradient) ==
    LET old == TotalLayer(n, iLayer).neurons[iNeuron]
        kind == n.activation_function_types[iLayer]
    IN  [n EXCEPT !.layers[n.total_layers[iLayer]].neurons[iNeuron] =
            [old EXCEPT
               !.output = ActivationY(kind, old.input),
               !.doutput_dinputs =
                   IF compute_gradient
                   THEN [iInput \in DOMAIN old.doutput_dinputs |->
                           Mul(ActivationdYdX(kind, old.input),
                               old.doutput_dinputs[iInput])]
                   ELSE old.doutput_dinputs]]

\* one pass of the last loop of Predict
DenormalizeOutput(n, iNeuron, compute_gradient) ==
    LET old == OutputLayerOf(n).neurons[iNeuron]
        scale == n.output_norm[iNeuron][2] - n.output_norm[iNeuron][1]
        grad == IF compute_gradient
                THEN [iInput \in 0..(NInputs(n) - 1) |->
                        Mul(scale, old.doutput_dinputs[iInput])]
                ELSE old.doutput_dinputs
    IN  [n EXCEPT
          !.layers[n.outputLayer].neurons[iNeuron].doutput_dinputs = grad,
          !.dOutputs_dInputs[iNeuron] =
              IF compute_gradient THEN grad ELSE n.dOutputs_dInputs[iNeuron],
          !.ANN_outputs[iNeuron] = Mul(old.output, scale) + n.output_norm[iNeuron][1]]

Inside(t) == threads[t].pc \notin {"idle", "done"}

\* what a thread step leaves alone
ThreadFrame ==
    /\ UNCHANGED <<build, oob>>
    /\ UNCHANGED mapvars
    /\ UNCHANGED readvars
    /\ UNCHANGED setvars

\* thread t calls Predict(inputs, compute_gradient)
EnterPredict(t, inputs, compute_gradient) ==
    /\ build = "sized"
    /\ threads[t].pc = "idle"
    /\ threads' = [threads EXCEPT ![t] =
          [@ EXCEPT !.pc = "normalize", !.inputs = inputs,
                    !.compute_gradient = compute_gradient,
                    !.same_point = TRUE, !.iNeuron = 0]]
    /\ overlapped' = (overlapped \/ \E u \in Threads \ {t} : Inside(u))
    /\ call' = [made |-> TRUE, inputs |-> inputs,
                compute_gradient |-> compute_gradient]
    /\ prev_call' = call
    /\ before' = net
    /\ n_calls' = n_calls + 1
    /\ net' = net
    /\ ThreadFrame

\* what the steps inside Predict leave alone
StepFrame ==
    /\ UNCHANGED <<overlapped, call, prev_call, before, n_calls>>
    /\ ThreadFrame

NormalizeStep(t) ==
    LET th == threads[t]
        same_point == th.same_point /\ ~ InputDiffers(net, th.inputs, th.iNeuron)
        last == th.iNeuron + 1 >= NInputs(net)
    IN  /\ th.pc = "normalize"
        /\ net' = NormalizeInput(net, th.inputs, th.iNeuron, th.compute_gradient)
        /\ threads' = [threads EXCEPT ![t] =
              [@ EXCEPT !.same_point = same_point,
                        !.pc = IF ~ last THEN "normalize"
                               ELSE IF ~ same_point THEN "input"
                               ELSE "denormalize",
                        !.iLayer = IF last THEN 1 ELSE @,
                        !.iNeuron = IF last THEN 0 ELSE th.iNeuron + 1]]
        /\ StepFrame

InputStep(t) ==
    LET th == threads[t]
        last == th.iNeuron + 1 >= GetNNeurons(TotalLayer(net, th.iLayer))
    IN  /\ th.pc = "input"
        /\ net' = SetNeuronInput(net, th.iLayer, th.iNeuron, th.compute_gradient)
        /\ threads' = [threads EXCEPT ![t] =
              [@ EXCEPT !.pc = IF last THEN "activate" ELSE "input",
                        !.iNeuron = IF last THEN 0 ELSE th.iNeuron + 1]]
        /\ StepFrame

ActivateStep(t) ==
    LET th == threads[t]
        last == th.iNeuron + 1 >= GetNNeurons(TotalLayer(net, th.iLayer))
        more == th.iLayer + 1 < net.n_hidden_layers + 2
        activated == ActivateNeuron(net, th.iLayer, th.iNeuron, th.compute_gradient)
    IN  /\ th.pc = "activate"
        /\ net' = IF last
                  THEN [activated EXCEPT !.evaluations = @ + 1]
                  ELSE activated
        /\ threads' = [threads EXCEPT ![t] =
              [@ EXCEPT !.pc = IF ~ last THEN "activate"
                               ELSE IF more THEN "input"
                               ELSE "denormalize",
                        !.iLayer = IF last /\ more THEN th.iLayer + 1 ELSE @,
                        !.iNeuron = IF last THEN 0 ELSE th.iNeuron + 1]]
        /\ StepFrame

DenormalizeStep(t) ==
    LET th == threads[t]
        last == th.iNeuron + 1 >= NOutputs(net)
    IN  /\ th.pc = "denormalize"
        /\ net' = DenormalizeOutput(net, th.iNeuron, th.compute_gradient)
        /\ threads' = [threads EXCEPT ![t] =
              [@ EXCEPT !.pc = IF last THEN "returned" ELSE "denormalize",
                        !.iNeuron = IF last THEN 0 ELSE th.iNeuron + 1]]
        /\ StepFrame

\* the caller of thread t reads the outputs and the jacobian of the network
ReadOutputs(t) ==
    /\ threads[t].pc = "returned"
    /\ threads' = [threads EXCEPT ![t] =
          [@ EXCEPT !.pc = "done",
                    !.outputs = net.ANN_outputs,
                    !.jacobian = net.dOutputs_dInputs,
                    !.evaluated = net.evaluations > 0]]
    /\ net' = net
    /\ StepFrame

NextThreads ==
    \E t \in Threads :
        \/ \E inputs \in InputVectors(NInputs(net)), compute_gradient \in BOOLEAN :
              EnterPredict(t, inputs, compute_gradient)
        \/ NormalizeStep(t)
        \/ InputStep(t)
        \/ ActivateStep(t)
        \/ DenormalizeStep(t)
        \/ ReadOutputs(t)

SpecThreads == InitThreads /\ [][NextThreads]_vars

(***************************************************************************)
(* SpecActivation: Predict calls on networks 1-1-1 with unit weights, zero *)
(* biases and bounds (0,1), where one layer uses the activation function   *)
(* under study and the other is linear.                                    *)
(***************************************************************************)
ActivationNames == DOMAIN activation_function_map

ActivationDescriptions ==
    {Description(<<1, 1, 1>>, Vec(<<"linear", k[1], k[2]>>), "identity", 0,
                 <<0, SCALE>>, <<0, SCALE>>) :
        k \in {kk \in ActivationNames \X ActivationNames :
                  kk[1] = "linear" \/ kk[2] = "linear"}}

ActivationInputs ==
    {[i \in {0} |-> v] :
        v \in {-2 * SCALE, -SCALE, -(SCALE \div 2), SCALE \div 2, SCALE, 2 * SCALE}}

InitActivation ==
    /\ \E d \in ActivationDescriptions, junk \in UninitValues : Built(d, junk)
    /\ NoMap
    /\ NoRead
    /\ NoThreads

NextActivation ==
    \E inputs \in ActivationInputs, compute_gradient \in BOOLEAN :
        PredictCall(inputs, compute_gradient)

SpecActivation == InitActivation /\ [][NextActivation]_vars

(***************************************************************************)
(* SpecBuild: the builder sequence of one network.                         *)
(***************************************************************************)
InitBuild ==
    /\ net = NewNetwork
    /\ build = "new"
    /\ oob = FALSE
    /\ call = NoCall
    /\ prev_call = NoCall
    /\ before = NewNetwork
    /\ n_calls = 0
    /\ weights_set = EmptyVec
    /\ n_sets = 0
    /\ NoMap
    /\ NoRead
    /\ NoThreads

CallDefineInputLayer(n_neurons) ==
    /\ build = "new"
    /\ net' = DefineInputLayer(net, n_neurons)
    /\ build' = "input"
    /\ UNCHANGED <<oob, call, prev_call, before, n_calls>>
    /\ UNCHANGED mapvars
    /\ UNCHANGED readvars
    /\ UNCHANGED setvars
    /\ UNCHANGED thrvars

CallPushHiddenLayer(n_neurons) ==
    /\ build = "input"
    /\ net.n_hidden_layers < MaxHidden
    /\ net' = PushHiddenLayer(net, n_neurons)
    /\ UNCHANGED <<build, oob, call, prev_call, before, n_calls>>
    /\ UNCHANGED mapvars
    /\ UNCHANGED readvars
    /\ UNCHANGED setvars
    /\ UNCHANGED thrvars

CallDefineOutputLayer(n_neurons) ==
    /\ build = "input"
    /\ net' = DefineOutputLayer(net, n_neurons)
    /\ build' = "output"
    /\ UNCHANGED <<oob, call, prev_call, before, n_calls>>
    /\ UNCHANGED mapvars
    /\ UNCHANGED readvars
    /\ UNCHANGED setvars
    /\ UNCHANGED thrvars

\* a read outside hiddenLayers is undefined: it yields any neuron count, or
\* the call does not return
CallSizeWeights ==
    /\ build = "output"
    /\ IF SizeWeightsReadsOutside(net)
       THEN /\ oob' = TRUE
            /\ \/ \E junk0, junk1 \in 0..MaxNeurons, junk \in UninitValues :
                    /\ net' = SizeWeights(net, junk0, junk1, junk)
                    /\ build' = "sized"
               \/ /\ net' = net
                  /\ build' = "crashed"
       ELSE /\ \E junk \in UninitValues : net' = SizeWeights(net, 0, 0, junk)
            /\ build' = "sized"
            /\ oob' = oob
    /\ UNCHANGED <<call, prev_call, before, n_calls>>
    /\ UNCHANGED mapvars
    /\ UNCHANGED readvars
    /\ UNCHANGED setvars
    /\ UNCHANGED thrvars

NextBuild ==
    \/ \E n_neurons \in 1..MaxNeurons : CallDefineInputLayer(n_neurons)
    \/ \E n_neurons \in 1..MaxNeurons : CallPushHiddenLayer(n_neurons)
    \/ \E n_neurons \in 1..MaxNeurons : CallDefineOutputLayer(n_neurons)
    \/ CallSizeWeights

SpecBuild == InitBuild /\ [][NextBuild]_vars

(***************************************************************************)
(* Reference results: the forward pass of section 4.1 as a function of the *)
(* raw inputs alone (weights, biases, kinds and bounds of n; none of its   *)
(* neuron buffers), and its centered finite difference.                    *)
(***************************************************************************)
RECURSIVE ReferenceLayerInputs(_, _, _)
ReferenceLayerOutputs(n, inputs, iLayer) ==
    IF iLayer = 0
    THEN [i \in 0..(NInputs(n) - 1) |-> NormalizedInput(n, inputs, i)]
    ELSE LET x == ReferenceLayerInputs(n, inputs, iLayer)
         IN  [i \in DOMAIN x |->
                ActivationY(n.activation_function_types[iLayer], x[i])]

ReferenceLayerInputs(n, inputs, iLayer) ==
    LET prev == ReferenceLayerOutputs(n, inputs, iLayer - 1)
        cur == TotalLayer(n, iLayer)
    IN  [i \in 0..(GetNNeurons(cur) - 1) |->
           cur.neurons[i].bias
             + SumUpTo([j \in DOMAIN prev |->
                          Mul(n.weights_mat[iLayer - 1][i][j], prev[j])],
                       Size(prev) - 1)]

ForwardPass(n, inputs) ==
    LET y == ReferenceLayerOutputs(n, inputs, n.n_hidden_layers + 1)
    IN  [o \in DOMAIN y |->
           Mul(y[o], n.output_norm[o][2] - n.output_norm[o][1])
             + n.output_norm[o][1]]

Shifted(inputs, k, h) == [inputs EXCEPT ![k] = inputs[k] + h]

\* (F(x + h e_k) - F(x - h e_k))[o] / 2h
FiniteDifference(n, inputs, o, k, h) ==
    RoundDiv((ForwardPass(n, Shifted(inputs, k, h))[o]
                - ForwardPass(n, Shifted(inputs, k, -h))[o]) * SCALE, 2 * h)

\* the kinds whose y is defined piecewise, with the pieces meeting at x = 0
PiecewiseKinds == {"RELU", "ELU", "SELU"}

\* no neuron of a piecewise layer changes its piece between x - h and x + h
SamePiece(n, inputs, k, h) ==
    \A iLayer \in 1..(n.n_hidden_layers + 1) :
        n.activation_function_types[iLayer] \in PiecewiseKinds =>
            LET lo == ReferenceLayerInputs(n, Shifted(inputs, k, -h), iLayer)
                mid == ReferenceLayerInputs(n, inputs, iLayer)
                hi == ReferenceLayerInputs(n, Shifted(inputs, k, h), iLayer)
            IN  \A i \in DOMAIN mid :
                   \/ lo[i] > 0 /\ mid[i] > 0 /\ hi[i] > 0
                   \/ lo[i] < 0 /\ mid[i] < 0 /\ hi[i] < 0

\* the last call evaluated the layers (it was no cache hit)
Traversed == net.evaluations > before.evaluations

ExactStep == SCALE \div 2

\* the jacobian equals the centered difference at the inputs of the last
\* call, wherever the network is linear between x - h and x + h
JacobianIsDerivative ==
    \A o \in 0..(NOutputs(net) - 1), k \in 0..(NInputs(net) - 1) :
        SamePiece(net, call.inputs, k, ExactStep) =>
            net.dOutputs_dInputs[o][k]
              = FiniteDifference(net, call.inputs, o, k, ExactStep)


(***************************************************************************)
(* CLookUp_ANN: the queries CIOMap makes to the collection of networks.    *)
(***************************************************************************)
GetNANNs(collection) == Size(collection)

\* the pairs (index in variable_names, index in the names of network i_ANN)
\* with equal names, in the order of variable_names, then of the network
FindVariableIndices(collection, i_ANN, variable_names, input) ==
    LET names == IF input THEN collection[i_ANN].input_names
                 ELSE collection[i_ANN].output_names
        nNames == Size(names)
        pairs == [k \in 1..(Size(variable_names) * nNames) |->
                    <<(k - 1) \div nNames, (k - 1) % nNames>>]
        Matches(pr) == variable_names[pr[1]] = names[pr[2]]
    IN  Vec(SelectSeq(pairs, Matches))

\* every call input is paired with an input of a network of the map
CheckUseOfInputs(inputs, input_map) ==
    \A iInput \in DOMAIN inputs :
        \E i_map \in DOMAIN input_map :
            \E jInput \in DOMAIN input_map[i_map] :
                input_map[i_map][jInput][1] = iInput

\* every call output is paired with an output of a network of the map
CheckUseOfOutputs(outputs, output_map) ==
    \A iOutput \in DOMAIN outputs :
        \E i_map \in DOMAIN output_map :
            \E jOutput \in DOMAIN output_map[i_map] :
                output_map[i_map][jOutput][1] = iOutput

(***************************************************************************)
(* CIOMap.                                                                 *)
(***************************************************************************)
\* the loop of PairVariableswithMLPs from iMLP on; m holds the three vectors
RECURSIVE PairFrom(_, _, _, _, _)
PairFrom(collection, inputs, outputs, iMLP, m) ==
    IF iMLP < GetNANNs(collection)
    THEN LET Input_Indices == FindVariableIndices(collection, iMLP, inputs, TRUE)
             isInput == Size(Input_Indices) > 0
             Output_Indices == FindVariableIndices(collection, iMLP, outputs, FALSE)
             isOutput == Size(Output_Indices) > 0
             pushed == [MLP_indices |-> PushBack(m.MLP_indices, iMLP),
                        Input_Map |-> PushBack(m.Input_Map, Input_Indices),
                        Output_Map |-> PushBack(m.Output_Map, Output_Indices)]
         IN  PairFrom(collection, inputs, outputs, iMLP + 1,
                      IF isInput /\ isOutput THEN pushed ELSE m)
    ELSE m

\* the pairing with the test on the outputs left out
RECURSIVE PairFromInputsOnly(_, _, _, _, _)
PairFromInputsOnly(collection, inputs, outputs, iMLP, m) ==
    IF iMLP < GetNANNs(collection)
    THEN LET Input_Indices == FindVariableIndices(collection, iMLP, inputs, TRUE)
             Output_Indices == FindVariableIndices(collection, iMLP, outputs, FALSE)
             pushed == [MLP_indices |-> PushBack(m.MLP_indices, iMLP),
                        Input_Map |-> PushBack(m.Input_Map, Input_Indices),
                        Output_Map |-> PushBack(m.Output_Map, Output_Indices)]
         IN  PairFromInputsOnly(collection, inputs, outputs, iMLP + 1,
                                IF Size(Input_Indices) > 0 THEN pushed ELSE m)
    ELSE m

PairInputsOnly(collection, inputs, outputs) ==
    PairFromInputsOnly(collection, inputs, outputs, 0,
                       [MLP_indices |-> EmptyVec, Input_Map |-> EmptyVec,
                        Output_Map |-> EmptyVec])

\* the pairing with the test on the inputs left out
RECURSIVE PairFromOutputsOnly(_, _, _, _, _)
PairFromOutputsOnly(collection, inputs, outputs, iMLP, m) ==
    IF iMLP < GetNANNs(collection)
    THEN LET Input_Indices == FindVariableIndices(collection, iMLP, inputs, TRUE)
             Output_Indices == FindVariableIndices(collection, iMLP, outputs, FALSE)
             pushed == [MLP_indices |-> PushBack(m.MLP_indices, iMLP),
                        Input_Map |-> PushBack(m.Input_Map, Input_Indices),
                        Output_Map |-> PushBack(m.Output_Map, Output_Indices)]
         IN  PairFromOutputsOnly(collection, inputs, outputs, iMLP + 1,
                                 IF Size(Output_Indices) > 0 THEN pushed ELSE m)
    ELSE m

PairOutputsOnly(collection, inputs, outputs) ==
    PairFromOutputsOnly(collection, inputs, outputs, 0,
                        [MLP_indices |-> EmptyVec, Input_Map |-> EmptyVec,
                         Output_Map |-> EmptyVec])

\* the pairing with Input_Map pushed for every network whose inputs match
RECURSIVE PairFromInputMapEarly(_, _, _, _, _)
PairFromInputMapEarly(collection, inputs, outputs, iMLP, m) ==
    IF iMLP < GetNANNs(collection)
    THEN LET Input_Indices == FindVariableIndices(collection, iMLP, inputs, TRUE)
             isInput == Size(Input_Indices) > 0
             Output_Indices == FindVariableIndices(collection, iMLP, outputs, FALSE)
             isOutput == Size(Output_Indices) > 0
             early == [m EXCEPT !.Input_Map = PushBack(m.Input_Map, Input_Indices)]
             pushed == [early EXCEPT
                          !.MLP_indices = PushBack(m.MLP_indices, iMLP),
                          !.Output_Map = PushBack(m.Output_Map, Output_Indices)]
         IN  PairFromInputMapEarly(collection, inputs, outputs, iMLP + 1,
                                   IF isInput /\ isOutput THEN pushed
                                   ELSE IF isInput THEN early
                                   ELSE m)
    ELSE m

PairInputMapEarly(collection, inputs, outputs) ==
    PairFromInputMapEarly(collection, inputs, outputs, 0,
                          [MLP_indices |-> EmptyVec, Input_Map |-> EmptyVec,
                           Output_Map |-> EmptyVec])

PairVariableswithMLPs(collection, inputs, outputs) ==
    PairFrom(collection, inputs, outputs, 0,
             [MLP_indices |-> EmptyVec, Input_Map |-> EmptyVec,
              Output_Map |-> EmptyVec])

\* the constructor CIOMap(MLP_collection, inputs, outputs)
ConstructCIOMap ==
    /\ map_pc = "start"
    /\ LET m == PairVariableswithMLPs(MLP_collection, call_inputs, call_outputs)
       IN  /\ MLP_indices' = m.MLP_indices
           /\ Input_Map' = m.Input_Map
           /\ Output_Map' = m.Output_Map
           /\ IF Size(call_outputs) > 0
              THEN /\ n_input_checks' = n_input_checks + 1
                   /\ n_output_checks' = n_output_checks + 1
                   /\ config_error' =
                        (\/ ~ CheckUseOfInputs(call_inputs, m.Input_Map)
                         \/ ~ CheckUseOfOutputs(call_outputs, m.Output_Map))
              ELSE UNCHANGED <<n_input_checks, n_output_checks, config_error>>
    /\ map_pc' = "constructed"
    /\ UNCHANGED <<MLP_collection, call_inputs, call_outputs>>
    /\ UNCHANGED netvars
    /\ UNCHANGED readvars
    /\ UNCHANGED setvars
    /\ UNCHANGED thrvars

(***************************************************************************)
(* SpecMap: the construction of a CIOMap over a collection of networks.    *)
(***************************************************************************)
NetworkInputNames == {<<"T", "p">>, <<"T", "p", "Y">>, <<"Y">>}

NetworkOutputNames == {<<"rho">>, <<"mu">>, <<"rho", "k">>}

CallInputNames == {<<"T", "p">>, <<"p", "T">>, <<"T", "Y">>, <<"T", "Z">>}

CallOutputNames == {<<>>, <<"rho", "mu">>, <<"rho", "k">>, <<"mu">>}

LoadedNetworks ==
    {[input_names |-> Vec(i), output_names |-> Vec(o)] :
        i \in NetworkInputNames, o \in NetworkOutputNames}

Collections == UNION {[0..(N - 1) -> LoadedNetworks] : N \in 0..MaxNets}

InitMap ==
    /\ net = NewNetwork
    /\ build = "new"
    /\ oob = FALSE
    /\ call = NoCall
    /\ prev_call = NoCall
    /\ before = NewNetwork
    /\ n_calls = 0
    /\ weights_set = EmptyVec
    /\ n_sets = 0
    /\ NoRead
    /\ MLP_collection \in Collections
    /\ call_inputs \in {Vec(i) : i \in CallInputNames}
    /\ call_outputs \in {Vec(o) : o \in CallOutputNames}
    /\ MLP_indices = EmptyVec
    /\ Input_Map = EmptyVec
    /\ Output_Map = EmptyVec
    /\ map_pc = "start"
    /\ n_input_checks = 0
    /\ n_output_checks = 0
    /\ config_error = FALSE
    /\ NoThreads

NextMap == ConstructCIOMap

SpecMap == InitMap /\ [][NextMap]_vars


(***************************************************************************)
(* CReadNeuralNetwork: the .mlp file and its stream.                       *)
(* A file is its lines, each line the sequence of its whitespace-separated *)
(* words (a blank line is <<>>), and whether the last line ends with a     *)
(* newline.  The UB argument `junk` says what undefined behaviour does:    *)
(* junk.crash stops the program; otherwise a read outside a vector yields  *)
(* junk.count, a write outside a vector lands outside the object, and the  *)
(* uninitialised n_layers holds junk.layers.                               *)
(***************************************************************************)
TagHeader == <<"<header>">>
TagHeaderEnd == <<"</header>">>
TagLayers == <<"[number", "of", "layers]">>
TagNeurons == <<"[neurons", "per", "layer]">>
TagActivation == <<"[activation", "function]">>
TagInputNames == <<"[input", "names]">>
TagInputNorm == <<"[input", "normalization]">>
TagOutputNames == <<"[output", "names]">>
TagOutputNorm == <<"[output", "normalization]">>
TagWeights == <<"[weights", "per", "layer]">>
TagBiases == <<"[biases", "per", "layer]">>

\* the numerals of the files of the model, and the value each one denotes
NumeralValue ==
    [w \in {"0", "1", "2", "3", "0.5"} |->
        CASE w = "0" -> 0
          [] w = "1" -> SCALE
          [] w = "2" -> 2 * SCALE
          [] w = "3" -> 3 * SCALE
          [] w = "0.5" -> SCALE \div 2]

IsNumeral(w) == w \in DOMAIN NumeralValue

\* std::stold(word); it throws std::invalid_argument unless IsNumeral(word)
stold(word) == NumeralValue[word]

\* std::stoul(line) converts the leading numeral of the line and throws
\* std::invalid_argument when there is none
CanStoul(line) == Len(line) > 0 /\ IsNumeral(line[1])

\* the digits before the decimal point
stoul(line) == NumeralValue[line[1]] \div SCALE

\* the reader as constructed, with its stream at the start of the file
NewReader(junk) ==
    [status |-> "running",
     pos |-> 1, eof |-> FALSE, fail |-> FALSE,
     line |-> <<>>, word |-> "",
     eoHeader |-> FALSE, found_layercount |-> FALSE,
     found_input_names |-> FALSE, found_output_names |-> FALSE,
     n_layers |-> junk.layers,
     n_neurons |-> EmptyVec,
     weights_mat |-> EmptyVec, biases_mat |-> EmptyVec,
     activation_functions |-> EmptyVec,
     input_names |-> EmptyVec, output_names |-> EmptyVec,
     input_norm |-> EmptyVec, output_norm |-> EmptyVec,
     \* instrumentation
     line_no |-> 0,          \* file line held by `line` (0: none)
     word_from |-> <<0, 0>>, \* (line, word) of the last >> word (0,0: it failed)
     outside |-> FALSE,      \* a vector was indexed outside its bounds
     uninit |-> FALSE,       \* n_layers was read before it was set
     weight_from |-> EmptyVec, \* where each stored weight was read from
     bias_from |-> EmptyVec,   \* where each stored bias was read from
     weights_read |-> 0,     \* values converted for weights_mat
     biases_read |-> 0]      \* values converted for biases_mat

Running(r) == r.status = "running"

Throw(r) == [r EXCEPT !.status = "error"]

\* a vector is indexed outside its bounds
Undefined(r, junk) ==
    [r EXCEPT !.outside = TRUE,
              !.status = IF junk.crash THEN "crashed" ELSE r.status]

\* std::getline(file_stream, line); its result as a condition is ~ fail
getline(f, r) ==
    IF r.eof \/ r.fail
    THEN [r EXCEPT !.fail = TRUE]
    ELSE IF r.pos > Len(f.lines)
    THEN [r EXCEPT !.line = <<>>, !.line_no = 0, !.eof = TRUE, !.fail = TRUE]
    ELSE [r EXCEPT !.line = f.lines[r.pos], !.line_no = r.pos,
                   !.pos = r.pos + 1,
                   !.eof = (r.pos = Len(f.lines) /\ ~ f.newline)]

\* the k-th `stream >> word` on a stream of the current line
Extract(r, k) ==
    IF k <= Len(r.line)
    THEN [r EXCEPT !.word = r.line[k], !.word_from = <<r.line_no, k>>]
    ELSE [r EXCEPT !.word_from = <<0, 0>>]

RECURSIVE SkipLoop(_, _, _)
SkipLoop(f, r, flag) ==
    IF r.line # flag /\ ~ r.eof
    THEN SkipLoop(f, getline(f, r), flag)
    ELSE r

\* line = SkipToFlag(&file_stream, flag)
SkipToFlag(f, r, flag) ==
    SkipLoop(f, getline(f, [r EXCEPT !.line = <<>>, !.line_no = 0]), flag)

(***************************************************************************)
(* The sections of the header loop of ReadMLPFile.                         *)
(***************************************************************************)
IfNumberOfLayers(f, r) ==
    IF ~ Running(r) \/ r.line # TagLayers THEN r
    ELSE LET g == getline(f, r)
         IN  IF ~ CanStoul(g.line) THEN Throw(g)
             \* weights_mat.resize(n_layers - 1) of n_layers = 0 throws
             ELSE IF stoul(g.line) = 0 THEN Throw(g)
             ELSE LET n == stoul(g.line)
                  IN  [g EXCEPT
                         !.n_layers = n,
                         !.n_neurons = Resize(g.n_neurons, n, 0),
                         !.biases_mat = Resize(g.biases_mat, n, EmptyVec),
                         !.bias_from = Resize(g.bias_from, n, EmptyVec),
                         !.weights_mat = Resize(g.weights_mat, n - 1, EmptyVec),
                         !.weight_from = Resize(g.weight_from, n - 1, EmptyVec),
                         !.activation_functions =
                             Resize(g.activation_functions, n, ""),
                         !.found_layercount = TRUE]

RECURSIVE ReadNeuronCounts(_, _, _)
ReadNeuronCounts(f, r, iLayer) ==
    IF ~ Running(r) \/ iLayer >= r.n_layers THEN r
    ELSE LET g == getline(f, r)
         IN  IF ~ CanStoul(g.line) THEN Throw(g)
             ELSE ReadNeuronCounts(f,
                    [g EXCEPT
                       !.n_neurons[iLayer] = stoul(g.line),
                       !.biases_mat[iLayer] =
                           Resize(g.biases_mat[iLayer], stoul(g.line), 0),
                       !.bias_from[iLayer] =
                           Resize(g.bias_from[iLayer], stoul(g.line), <<0, 0>>)],
                    iLayer + 1)

\* the weight matrices and the normalization bounds, sized after n_neurons
SizeFromNeuronCounts(r) ==
    LET last == r.n_neurons[Size(r.n_neurons) - 1]
    IN  [r EXCEPT
           !.weights_mat =
               [l \in DOMAIN r.weights_mat |->
                   SizedMatrix(r.weights_mat[l], r.n_neurons[l], r.n_neurons[l + 1])],
           !.weight_from =
               [l \in DOMAIN r.weight_from |->
                   LET rows == Resize(r.weight_from[l], r.n_neurons[l], EmptyVec)
                   IN  [i \in DOMAIN rows |->
                          Resize(rows[i], r.n_neurons[l + 1], <<0, 0>>)]],
           !.input_norm = [i \in 0..(r.n_neurons[0] - 1) |-> <<0, SCALE>>],
           !.output_norm = [i \in 0..(last - 1) |-> <<0, SCALE>>]]

IfNeuronsPerLayer(f, r) ==
    IF ~ Running(r) \/ r.line # TagNeurons THEN r
    ELSE IF ~ r.found_layercount THEN Throw(r)
    ELSE LET counted == ReadNeuronCounts(f, r, 0)
         IN  IF Running(counted) THEN SizeFromNeuronCounts(counted) ELSE counted

RECURSIVE ReadActivationFunctions(_, _, _)
ReadActivationFunctions(f, r, iLayer) ==
    IF iLayer >= r.n_layers THEN r
    ELSE LET g == Extract(getline(f, r), 1)
         IN  ReadActivationFunctions(f,
                [g EXCEPT !.activation_functions[iLayer] = g.word], iLayer + 1)

IfActivationFunction(f, r) ==
    IF ~ Running(r) \/ r.line # TagActivation THEN r
    ELSE IF ~ r.found_layercount THEN Throw(r)
    ELSE ReadActivationFunctions(f, r, 0)

\* n_neurons[i]; outside the vector the read is undefined
NNeuronsAt(r, i, junk) ==
    IF i \in DOMAIN r.n_neurons THEN r.n_neurons[i] ELSE junk.count

\* the reader after n_neurons[i] has been evaluated
Indexed(r, i, junk) ==
    IF i \in DOMAIN r.n_neurons THEN r ELSE Undefined(r, junk)

RECURSIVE ReadInputNames(_, _, _, _)
ReadInputNames(f, r, junk, iInput) ==
    LET r1 == Indexed(r, 0, junk)
    IN  IF ~ Running(r1) \/ iInput >= NNeuronsAt(r1, 0, junk) THEN r1
        ELSE LET g == getline(f, r1)
             IN  ReadInputNames(f,
                    IF iInput \in DOMAIN g.input_names
                    THEN [g EXCEPT !.input_names[iInput] = g.line]
                    ELSE Undefined(g, junk),
                    junk, iInput + 1)

IfInputNames(f, r, junk) ==
    IF ~ Running(r) \/ r.line # TagInputNames THEN r
    ELSE LET found == Indexed([r EXCEPT !.found_input_names = TRUE], 0, junk)
         IN  IF ~ Running(found) THEN found
             ELSE ReadInputNames(f,
                    [found EXCEPT !.input_names =
                        Resize(found.input_names, NNeuronsAt(found, 0, junk), <<>>)],
                    junk, 0)

RECURSIVE ReadInputNormalization(_, _, _)
ReadInputNormalization(f, r, iInput) ==
    IF ~ Running(r) \/ iInput >= Size(r.input_norm) THEN r
    ELSE LET g == getline(f, r)
         IN  IF g.line = <<>> THEN ReadInputNormalization(f, g, iInput + 1)
             ELSE LET a == Extract(g, 1)
                      b == Extract(a, 2)
                  IN  IF ~ IsNumeral(a.word) THEN Throw(a)
                      ELSE IF ~ IsNumeral(b.word) THEN Throw(b)
                      ELSE ReadInputNormalization(f,
                             [b EXCEPT !.input_norm[iInput] =
                                 <<stold(a.word), stold(b.word)>>],
                             iInput + 1)

IfInputNormalization(f, r) ==
    IF ~ Running(r) \/ r.line # TagInputNorm THEN r
    ELSE ReadInputNormalization(f, r, 0)

RECURSIVE ReadOutputNames(_, _, _, _, _)
ReadOutputNames(f, r, junk, n_outputs, iOutput) ==
    IF ~ Running(r) \/ iOutput >= n_outputs THEN r
    ELSE LET g == getline(f, r)
         IN  ReadOutputNames(f, [g EXCEPT !.output_names[iOutput] = g.line],
                             junk, n_outputs, iOutput + 1)

IfOutputNames(f, r, junk) ==
    IF ~ Running(r) \/ r.line # TagOutputNames THEN r
    ELSE LET last == Size(r.n_neurons) - 1
             found == Indexed([r EXCEPT !.found_output_names = TRUE], last, junk)
             n_outputs == NNeuronsAt(found, last, junk)
         IN  IF ~ Running(found) THEN found
             ELSE LET named ==
                        ReadOutputNames(f,
                           [found EXCEPT !.output_names =
                               Resize(found.output_names, n_outputs, <<>>)],
                           junk, n_outputs, 0)
                  IN  IF Running(named)
                         /\ Size(named.output_names) # NNeuronsAt(named, last, junk)
                      THEN Throw(named)
                      ELSE named

RECURSIVE ReadOutputNormalization(_, _, _)
ReadOutputNormalization(f, r, iOutput) ==
    IF ~ Running(r) \/ iOutput >= Size(r.output_norm) THEN r
    ELSE LET g == getline(f, r)
         IN  IF g.line = <<>> THEN ReadOutputNormalization(f, g, iOutput + 1)
             ELSE LET a == Extract(g, 1)
                      b == Extract(a, 2)
                  IN  IF ~ IsNumeral(a.word) THEN Throw(a)
                      ELSE IF ~ IsNumeral(b.word) THEN Throw(b)
                      ELSE ReadOutputNormalization(f,
                             [b EXCEPT !.output_norm[iOutput] =
                                 <<stold(a.word), stold(b.word)>>],
                             iOutput + 1)

IfOutputNormalization(f, r) ==
    IF ~ Running(r) \/ r.line # TagOutputNorm THEN r
    ELSE ReadOutputNormalization(f, r, 0)

IfHeaderEnd(r) ==
    IF ~ Running(r) \/ r.line # TagHeaderEnd THEN r
    ELSE [r EXCEPT !.eoHeader = TRUE]

\* one pass of the body of the header loop: the `if` statements in turn
HeaderBody(f, r, junk) ==
    IfHeaderEnd(
      IfOutputNormalization(f,
        IfOutputNames(f,
          IfInputNormalization(f,
            IfInputNames(f,
              IfActivationFunction(f,
                IfNeuronsPerLayer(f,
                  IfNumberOfLayers(f, r))), junk)), junk)))

\* while (getline(file_stream, line) && !eoHeader)
RECURSIVE HeaderLoop(_, _, _)
HeaderLoop(f, r, junk) ==
    IF ~ Running(r) THEN r
    ELSE LET g == getline(f, r)
         IN  IF g.fail \/ g.eoHeader THEN g
             ELSE HeaderLoop(f, HeaderBody(f, g, junk), junk)

(***************************************************************************)
(* The weights and the biases.                                             *)
(***************************************************************************)
\* for (jNeuron < n_neurons[iLayer + 1]): weight_stream >> word; stold
RECURSIVE ReadWeightRow(_, _, _, _, _)
ReadWeightRow(r, junk, iLayer, iNeuron, jNeuron) ==
    LET r1 == Indexed(r, iLayer + 1, junk)
    IN  IF ~ Running(r1) \/ jNeuron >= NNeuronsAt(r1, iLayer + 1, junk) THEN r1
        ELSE LET e == Extract(r1, jNeuron + 1)
                 inside == /\ iLayer \in DOMAIN e.weights_mat
                           /\ iNeuron \in DOMAIN e.weights_mat[iLayer]
                           /\ jNeuron \in DOMAIN e.weights_mat[iLayer][iNeuron]
             IN  IF ~ IsNumeral(e.word) THEN Throw(e)
                 ELSE ReadWeightRow(
                        IF inside
                        THEN [e EXCEPT
                                !.weights_mat[iLayer][iNeuron][jNeuron] = stold(e.word),
                                !.weight_from[iLayer][iNeuron][jNeuron] = e.word_from,
                                !.weights_read = e.weights_read + 1]
                        ELSE Undefined(e, junk),
                        junk, iLayer, iNeuron, jNeuron + 1)

\* for (iNeuron < n_neurons[iLayer]): getline; the row
RECURSIVE ReadWeightRows(_, _, _, _, _)
ReadWeightRows(f, r, junk, iLayer, iNeuron) ==
    LET r1 == Indexed(r, iLayer, junk)
    IN  IF ~ Running(r1) \/ iNeuron >= NNeuronsAt(r1, iLayer, junk) THEN r1
        ELSE ReadWeightRows(f,
                ReadWeightRow(getline(f, r1), junk, iLayer, iNeuron, 0),
                junk, iLayer, iNeuron + 1)

\* for (iLayer < n_layers - 1): getline; the rows; getline
RECURSIVE ReadWeightLayers(_, _, _, _)
ReadWeightLayers(f, r, junk, iLayer) ==
    IF ~ Running(r) \/ iLayer >= r.n_layers - 1 THEN r
    ELSE LET rows == ReadWeightRows(f, getline(f, r), junk, iLayer, 0)
         IN  ReadWeightLayers(f,
                IF Running(rows) THEN getline(f, rows) ELSE rows,
                junk, iLayer + 1)

\* for (iNeuron < n_neurons[iLayer]): bias_stream >> word; stold
RECURSIVE ReadBiasRow(_, _, _, _)
ReadBiasRow(r, junk, iLayer, iNeuron) ==
    LET r1 == Indexed(r, iLayer, junk)
    IN  IF ~ Running(r1) \/ iNeuron >= NNeuronsAt(r1, iLayer, junk) THEN r1
        ELSE LET e == Extract(r1, iNeuron + 1)
                 inside == /\ iLayer \in DOMAIN e.biases_mat
                           /\ iNeuron \in DOMAIN e.biases_mat[iLayer]
             IN  IF ~ IsNumeral(e.word) THEN Throw(e)
                 ELSE ReadBiasRow(
                        IF inside
                        THEN [e EXCEPT
                                !.biases_mat[iLayer][iNeuron] = stold(e.word),
                                !.bias_from[iLayer][iNeuron] = e.word_from,
                                !.biases_read = e.biases_read + 1]
                        ELSE Undefined(e, junk),
                        junk, iLayer, iNeuron + 1)

\* for (iLayer < n_layers): getline; the row
RECURSIVE ReadBiasLayers(_, _, _, _)
ReadBiasLayers(f, r, junk, iLayer) ==
    IF ~ Running(r) \/ iLayer >= r.n_layers THEN r
    ELSE ReadBiasLayers(f, ReadBiasRow(getline(f, r), junk, iLayer, 0),
                        junk, iLayer + 1)

\* the part of ReadMLPFile after the header loop
ReadAfterHeader(f, r, junk) ==
    IF ~ Running(r) THEN r
    ELSE IF ~ r.found_input_names THEN Throw(r)
    ELSE IF ~ r.found_output_names THEN Throw(r)
    ELSE LET known == [r EXCEPT !.uninit = ~ r.found_layercount]
             weights == ReadWeightLayers(f, SkipToFlag(f, known, TagWeights), junk, 0)
             biases == IF Running(weights)
                       THEN ReadBiasLayers(f, SkipToFlag(f, weights, TagBiases),
                                           junk, 0)
                       ELSE weights
         IN  IF Running(biases) THEN [biases EXCEPT !.status = "returned"]
             ELSE biases

ReadMLPFile(f, junk) ==
    IF ~ f.exists THEN Throw(NewReader(junk))
    ELSE ReadAfterHeader(f,
            HeaderLoop(f, SkipToFlag(f, NewReader(junk), TagHeader), junk), junk)

(***************************************************************************)
(* SpecRead: ReadMLPFile on the files of the model.  A file is written     *)
(* from a content (what each section lists) in a layout (the sections of   *)
(* the header, in order), with `gap` blank lines between </header> and the *)
(* weights, possibly without one of the tags, and cut after `cut` lines.   *)
(***************************************************************************)
Blank == <<>>

Sections ==
    {"layers", "neurons", "activation", "input names", "input norm",
     "output names", "output norm"}

Canonical ==
    <<"layers", "neurons", "activation", "input names", "input norm",
      "output names", "output norm">>

\* the numeral of a count
NumeralOf(n) == CHOOSE w \in DOMAIN NumeralValue : NumeralValue[w] = n * SCALE

RECURSIVE Concat(_)
Concat(seqs) == IF seqs = <<>> THEN <<>> ELSE Head(seqs) \o Concat(Tail(seqs))

\* the lines of section s, closed by a blank line
SectionLines(s, c) ==
    (CASE s = "layers" -> <<TagLayers, <<NumeralOf(Len(c.neurons))>>>>
       [] s = "neurons" ->
            <<TagNeurons>> \o [l \in 1..Len(c.neurons) |-> <<NumeralOf(c.neurons[l])>>]
       [] s = "activation" ->
            <<TagActivation>> \o [l \in 1..Len(c.neurons) |-> <<c.activation>>]
       [] s = "input names" -> <<TagInputNames>> \o c.input_names
       [] s = "input norm" -> <<TagInputNorm>> \o c.input_norm
       [] s = "output names" -> <<TagOutputNames>> \o c.output_names
       [] s = "output norm" -> <<TagOutputNorm>> \o c.output_norm)
      \o <<Blank>>

HeaderLines(c, layout) ==
    <<TagHeader, Blank>>
      \o Concat([k \in 1..Len(layout) |-> SectionLines(layout[k], c)])
      \o <<TagHeaderEnd>>

\* the weight from neuron i of layer l to neuron j of layer l + 1, and the
\* bias of neuron i of layer l, as numerals
WeightWord(l, i, j) == IF (l + i + j) % 2 = 0 THEN "2" ELSE "0.5"

BiasWord(l, i) == IF (l + i) % 2 = 0 THEN "3" ELSE "1"

WeightLines(c) ==
    Concat([l \in 1..(Len(c.neurons) - 1) |->
              <<<<"<layer>">>>>
                \o [i \in 1..c.neurons[l] |->
                      [j \in 1..c.neurons[l + 1] |-> WeightWord(l - 1, i - 1, j - 1)]]
                \o <<<<"</layer>">>>>])

BiasLines(c) ==
    [l \in 1..Len(c.neurons) |->
        [i \in 1..c.neurons[l] |-> BiasWord(l - 1, i - 1)]]

AllLines(c, layout, gap, drop) ==
    HeaderLines(c, layout)
      \o [k \in 1..gap |-> Blank]
      \o (IF drop = "weights" THEN <<>> ELSE <<TagWeights>>)
      \o WeightLines(c)
      \o <<Blank>>
      \o (IF drop = "biases" THEN <<>> ELSE <<TagBiases>>)
      \o BiasLines(c)

\* the file: `cut` = -1 keeps every line
MLPFile(c, layout, gap, drop, cut, newline) ==
    LET all == AllLines(c, layout, gap, drop)
    IN  [lines |-> IF cut < 0 \/ cut >= Len(all) THEN all ELSE SubSeq(all, 1, cut),
         newline |-> newline, exists |-> TRUE,
         content |-> c, layout |-> layout, gap |-> gap, drop |-> drop,
         complete |-> (cut < 0 \/ cut >= Len(all))]

ReadShapes == {<<2, 2>>, <<1, 2, 1>>}

NameLines == <<<<"T">>, <<"p">>>>

OutputNameLines == <<<<"rho">>, <<"mu">>>>

\* a `min max` line per variable, the line of variable `blank` left blank
NormLines(n, blank) ==
    [i \in 1..n |-> IF i = blank THEN Blank
                    ELSE IF i = 1 THEN <<"1", "3">> ELSE <<"0", "2">>]

\* a content that lists nIn input names and nOut output names for `shape`
Content(shape, nIn, nOut, blank) ==
    [neurons |-> shape,
     activation |-> "linear",
     input_names |-> SubSeq(NameLines, 1, nIn),
     output_names |-> SubSeq(OutputNameLines, 1, nOut),
     input_norm |-> NormLines(shape[1], blank),
     output_norm |-> NormLines(shape[Len(shape)], blank)]

\* the content whose name lists have the declared lengths
Consistent(shape, blank) == Content(shape, shape[1], shape[Len(shape)], blank)

Orderings(S) ==
    {p \in [1..Cardinality(S) -> S] : \A a, b \in 1..Cardinality(S) : p[a] = p[b] => a = b}

\* [number of layers] first, the other sections in any order
LayersFirstLayouts == {<<"layers">> \o p : p \in Orderings(Sections \ {"layers"})}

Without(layout, s) == SelectSeq(layout, LAMBDA x : x # s)

\* the canonical order with section s moved to position k
Moved(s, k) ==
    LET rest == Without(Canonical, s)
    IN  SubSeq(rest, 1, k - 1) \o <<s>> \o SubSeq(rest, k, Len(rest))

OtherLayouts ==
    {Without(Canonical, s) : s \in Sections}
      \cup {Moved(s, 1) : s \in Sections}
      \cup {<<s>> : s \in Sections}
      \cup {Moved("layers", k) : k \in 2..Len(Canonical)}
      \cup {Without(Without(Canonical, "layers"), "input names")}
      \cup {Without(Without(Canonical, "input names"), "output names")}

FullLength(c) == Len(AllLines(c, Canonical, 1, "none"))

Files ==
    \* every prefix of the canonical file
    {MLPFile(Consistent(s, 0), Canonical, gap, "none", cut, nl) :
        s \in ReadShapes, gap \in 0..1, nl \in BOOLEAN,
        cut \in -1..FullLength(Consistent(<<1, 2, 1>>, 0))}
    \* the sections in other orders
      \cup {MLPFile(Consistent(s, blank), layout, 1, "none", -1, TRUE) :
              s \in ReadShapes, blank \in 0..1, layout \in LayersFirstLayouts}
      \cup {MLPFile(Consistent(s, 0), layout, 1, "none", -1, TRUE) :
              s \in ReadShapes, layout \in OtherLayouts}
    \* name lists shorter or longer than declared, blank normalization lines
      \cup {MLPFile(Content(s, nIn, nOut, blank), Canonical, 1, "none", -1, TRUE) :
              s \in ReadShapes, nIn \in 1..2, nOut \in 0..2, blank \in 0..2}
    \* a tag left out
      \cup {MLPFile(Consistent(s, 0), layout, 1, drop, -1, nl) :
              s \in ReadShapes, drop \in {"weights", "biases"}, nl \in BOOLEAN,
              layout \in {Canonical, Without(Canonical, "output norm"),
                          Without(Without(Canonical, "output norm"), "input norm")}}
    \* no <header> line, and no file at all
      \cup {[MLPFile(Consistent(s, 0), Canonical, 1, "none", -1, TRUE)
                EXCEPT !.lines = Tail(@)] : s \in ReadShapes}
      \cup {[MLPFile(Consistent(<<2, 2>>, 0), Canonical, 1, "none", -1, TRUE)
                EXCEPT !.exists = FALSE]}

\* what undefined behaviour may do
Junks == [crash : BOOLEAN, count : 0..1, layers : 1..2]

InitRead ==
    /\ net = NewNetwork
    /\ build = "new"
    /\ oob = FALSE
    /\ call = NoCall
    /\ prev_call = NoCall
    /\ before = NewNetwork
    /\ n_calls = 0
    /\ weights_set = EmptyVec
    /\ n_sets = 0
    /\ NoMap
    /\ file \in Files
    /\ reader = [status |-> "constructed"]
    /\ NoThreads

CallReadMLPFile ==
    /\ reader.status = "constructed"
    /\ \E junk \in Junks : reader' = ReadMLPFile(file, junk)
    /\ UNCHANGED file
    /\ UNCHANGED netvars
    /\ UNCHANGED mapvars
    /\ UNCHANGED setvars
    /\ UNCHANGED thrvars

NextRead == CallReadMLPFile

SpecRead == InitRead /\ [][NextRead]_vars


(***************************************************************************)
(* Properties.                                                             *)
(***************************************************************************)
Range(v) == {v[i] : i \in DOMAIN v}

HasInputMatch(iMLP) ==
    Size(FindVariableIndices(MLP_collection, iMLP, call_inputs, TRUE)) > 0

HasOutputMatch(iMLP) ==
    Size(FindVariableIndices(MLP_collection, iMLP, call_outputs, FALSE)) > 0

\* C1: after construction, the selected networks are exactly those for which
\* FindVariableIndices is non-empty on the input side and on the output side
C1_SelectedIffBothMatch ==
    map_pc = "constructed" =>
        Range(MLP_indices)
          = {iMLP \in DOMAIN MLP_collection :
                HasInputMatch(iMLP) /\ HasOutputMatch(iMLP)}

\* a map with a selected network, beside a network whose inputs match and
\* whose outputs do not
C1_Witness ==
    /\ map_pc = "constructed"
    /\ Range(MLP_indices) # {}
    /\ \E iMLP \in DOMAIN MLP_collection :
          HasInputMatch(iMLP) /\ ~ HasOutputMatch(iMLP)
            /\ iMLP \notin Range(MLP_indices)

\* the last two calls were Predict(x, true) with the same x
RepeatedGradientCall ==
    /\ call.made /\ prev_call.made
    /\ call.compute_gradient /\ prev_call.compute_gradient
    /\ call.inputs = prev_call.inputs

\* C2: a second Predict(x, true) at the same x leaves the jacobian of the
\* first, whatever the output normalization bounds are
C2_RepeatedCallKeepsJacobian ==
    RepeatedGradientCall => net.dOutputs_dInputs = before.dOutputs_dInputs

\* C3: after Predict(x, true) the jacobian holds the partial derivatives of
\* the outputs with respect to the raw inputs at x, also when the call before
\* it was Predict(x, false) at the same x (a call that evaluated the layers)
C3_JacobianAfterValueCall ==
    (/\ call.made /\ call.compute_gradient
     /\ prev_call.made /\ ~ prev_call.compute_gradient
     /\ prev_call.inputs = call.inputs
     /\ before.evaluations > 0) => JacobianIsDerivative

\* C4: after every Predict call, the first included, the outputs are the
\* forward-pass result of the inputs of that call
C4_OutputsAreForwardPass ==
    call.made => net.ANN_outputs = ForwardPass(net, call.inputs)

\* neuron inputs and outputs of the hidden layers and the output layer
Buffers(n) ==
    [iLayer \in 1..(n.n_hidden_layers + 1) |->
        [i \in DOMAIN TotalLayer(n, iLayer).neurons |->
            <<TotalLayer(n, iLayer).neurons[i].input,
              TotalLayer(n, iLayer).neurons[i].output>>]]

\* the last two calls had the same raw inputs
RepeatedCall == call.made /\ prev_call.made /\ call.inputs = prev_call.inputs

\* the normalized inputs of the last call equal the outputs the input layer
\* held before it
InputsWereStored ==
    \A i \in 0..(NInputs(before) - 1) :
        NormalizedInput(before, call.inputs, i)
          = InputLayerOf(before).neurons[i].output

\* C5: a repeated call yields the same outputs and evaluates no layer, and a
\* call skips the layers exactly when its normalized inputs are the stored ones
C5_RepeatedCallIsCached ==
    /\ RepeatedCall =>
          /\ net.ANN_outputs = before.ANN_outputs
          /\ net.evaluations = before.evaluations
          /\ Buffers(net) = Buffers(before)
    /\ call.made => (net.evaluations = before.evaluations <=> InputsWereStored)

\* a repeated call at a point the first call had evaluated the layers for,
\* on a network with two inputs
C5_Witness ==
    /\ RepeatedCall
    /\ n_calls = 2
    /\ before.evaluations > 0
    /\ NInputs(net) = 2
    /\ net.ANN_outputs[0] # net.output_norm[0][1]

\* C6: with no call outputs the networks are selected on their inputs alone
\* and neither check is run
C6_EmptyOutputsSelectByInputs ==
    (map_pc = "constructed" /\ Size(call_outputs) = 0) =>
        /\ Range(MLP_indices) = {iMLP \in DOMAIN MLP_collection : HasInputMatch(iMLP)}
        /\ n_input_checks = 0
        /\ n_output_checks = 0

\* network iMLP declares an input named by the caller and an output named by
\* the caller
NamesSelect(iMLP) ==
    /\ Range(call_inputs) \cap Range(MLP_collection[iMLP].input_names) # {}
    /\ Range(call_outputs) \cap Range(MLP_collection[iMLP].output_names) # {}

UnusedCallInput ==
    \E name \in Range(call_inputs) :
        \A iMLP \in DOMAIN MLP_collection :
            NamesSelect(iMLP) => name \notin Range(MLP_collection[iMLP].input_names)

UnusedCallOutput ==
    \E name \in Range(call_outputs) :
        \A iMLP \in DOMAIN MLP_collection :
            NamesSelect(iMLP) => name \notin Range(MLP_collection[iMLP].output_names)

GradientStep == SCALE \div 10

GradientTolerance == 3 * (SCALE \div 100)

\* C8: for every activation kind, the jacobian of an evaluating
\* Predict(x, true) matches the centered finite difference of the forward pass
C8_GradientMatchesFiniteDifference ==
    (call.made /\ call.compute_gradient /\ Traversed) =>
        \A o \in 0..(NOutputs(net) - 1), k \in 0..(NInputs(net) - 1) :
            SamePiece(net, call.inputs, k, GradientStep) =>
                Abs(net.dOutputs_dInputs[o][k]
                      - FiniteDifference(net, call.inputs, o, k, GradientStep))
                  <= GradientTolerance

\* linear layers, identity weights, zero biases, one input, one output, and
\* the same bounds (a, b), a # b, on the input and the output
IsIdentityNetwork(n) ==
    /\ NInputs(n) = 1 /\ NOutputs(n) = 1
    /\ n.input_norm[0] = n.output_norm[0]
    /\ n.input_norm[0][1] # n.input_norm[0][2]
    /\ \A iLayer \in 1..(n.n_hidden_layers + 1) :
          /\ n.activation_function_types[iLayer] = "LINEAR"
          /\ \A i \in DOMAIN TotalLayer(n, iLayer).neurons :
                /\ TotalLayer(n, iLayer).neurons[i].bias = 0
                /\ \A j \in DOMAIN n.weights_mat[iLayer - 1][i] :
                      n.weights_mat[iLayer - 1][i][j] = IF i = j THEN SCALE ELSE 0

\* C9: on an identity network with bounds (a, b), Predict([a]) leaves [a] and
\* Predict([b]) leaves [b], in every position of the call sequence
C9_IdentityAtBounds ==
    (IsIdentityNetwork(net) /\ call.made
       /\ call.inputs[0] \in {net.input_norm[0][1], net.input_norm[0][2]}) =>
        net.ANN_outputs[0] = call.inputs[0]

\* Predict([b]) then Predict([a]) on an identity network with a # 0
C9_Witness ==
    /\ IsIdentityNetwork(net)
    /\ net.input_norm[0][1] # 0
    /\ n_calls = 2
    /\ prev_call.inputs[0] = net.input_norm[0][2]
    /\ call.inputs[0] = net.input_norm[0][1]
    /\ net.ANN_outputs[0] = net.input_norm[0][1]

\* the shape of the weights of a sized network
ShapeInvariant ==
    /\ Size(net.weights_mat) = Size(net.total_layers) - 1
    /\ \A l \in DOMAIN net.weights_mat :
          /\ Size(net.weights_mat[l]) = GetNNeurons(TotalLayer(net, l + 1))
          /\ \A i \in DOMAIN net.weights_mat[l] :
                Size(net.weights_mat[l][i]) = GetNNeurons(TotalLayer(net, l))

\* C10: SizeWeights returns for every builder sequence, zero hidden layers
\* included, with the weights shaped after the layers and without reading a
\* layer that does not exist
C10_SizeWeightsShapes ==
    /\ build # "crashed"
    /\ build = "sized" => (~ oob /\ ShapeInvariant)

(***************************************************************************)
(* Properties of ReadMLPFile.                                              *)
(***************************************************************************)
\* ReadMLPFile has been called and is over
Finished == reader.status \in {"returned", "error", "crashed"}

Positions(lines, tag) == {p \in 1..Len(lines) : lines[p] = tag}

Least(S) == CHOOSE x \in S : \A y \in S : x <= y

\* the line <header>, 0 when the file has none
HeaderStart ==
    IF Positions(file.lines, TagHeader) = {} THEN 0
    ELSE Least(Positions(file.lines, TagHeader))

\* the first line </header> after it, or the line after the last
HeaderEnd ==
    LET ends == {p \in Positions(file.lines, TagHeaderEnd) : p > HeaderStart}
    IN  IF ends = {} THEN Len(file.lines) + 1 ELSE Least(ends)

InHeader(p) == file.exists /\ HeaderStart > 0 /\ HeaderStart < p /\ p < HeaderEnd

\* the header holds a line `tag`
HasBlock(tag) == \E p \in Positions(file.lines, tag) : InHeader(p)

DependentTags == {TagNeurons, TagActivation, TagInputNames, TagOutputNames}

\* a section that depends on the layer count stands in the header with no
\* [number of layers] line before it
SectionBeforeLayerCount ==
    \E p \in 1..Len(file.lines) :
        /\ InHeader(p)
        /\ file.lines[p] \in DependentTags
        /\ \A q \in 1..(p - 1) : file.lines[q] # TagLayers

\* C11: a section that depends on the layer count and stands before
\* [number of layers] makes ReadMLPFile raise an error, and n_neurons is
\* never indexed while it is empty
C11_SectionBeforeLayerCountIsError ==
    (Finished /\ SectionBeforeLayerCount) =>
        (reader.status = "error" /\ ~ reader.outside)

\* C12: a header without an [input names] block or without an [output names]
\* block (a file without a <header> line included) makes ReadMLPFile raise
\* an error, and then no weight and no bias is read
C12_MissingNamesIsError ==
    (Finished /\ (~ HasBlock(TagInputNames) \/ ~ HasBlock(TagOutputNames))) =>
        /\ reader.status = "error"
        /\ reader.weights_read = 0
        /\ reader.biases_read = 0

\* the first line [weights per layer] after </header>, 0 when there is none
WeightsTagLine ==
    LET tags == {p \in Positions(file.lines, TagWeights) : p > HeaderEnd}
    IN  IF tags = {} THEN 0 ELSE Least(tags)

\* the first line [biases per layer] after it, 0 when there is none
BiasesTagLine ==
    LET tags == {p \in Positions(file.lines, TagBiases) : p > WeightsTagLine}
    IN  IF WeightsTagLine = 0 \/ tags = {} THEN 0 ELSE Least(tags)

\* the line of the weights of neuron i of layer l: each layer takes an
\* opening line, a line per neuron and a closing line
WeightLine(l, i) ==
    WeightsTagLine + 1
      + SumUpTo([k \in 0..(l - 1) |-> reader.n_neurons[k] + 2], l - 1) + i + 1

\* the line of the biases of layer l
BiasLine(l) == BiasesTagLine + 1 + l

\* the file ends before the last bias, or a tag is missing
SectionsCutShort ==
    \/ WeightsTagLine = 0
    \/ BiasesTagLine = 0
    \/ Len(file.lines) < BiasLine(reader.n_layers - 1)

EveryValueFromItsPosition ==
    /\ WeightsTagLine > 0
    /\ BiasesTagLine > 0
    /\ \A l \in DOMAIN reader.weight_from :
          \A i \in DOMAIN reader.weight_from[l] :
             \A j \in DOMAIN reader.weight_from[l][i] :
                reader.weight_from[l][i][j] = <<WeightLine(l, i), j + 1>>
    /\ \A l \in DOMAIN reader.bias_from :
          \A i \in DOMAIN reader.bias_from[l] :
             reader.bias_from[l][i] = <<BiasLine(l), i + 1>>

\* C13: with a line between </header> and the weights, and no vector indexed
\* outside its bounds, ReadMLPFile raises an error when a tag of the two
\* sections is missing or the file ends before the last bias, and when it
\* returns every weight and bias was read from its own position in the file
C13_CutShortIsError ==
    (Finished /\ file.gap > 0 /\ ~ reader.outside /\ reader.found_layercount) =>
        /\ SectionsCutShort => reader.status = "error"
        /\ reader.status = "returned" => EveryValueFromItsPosition

\* the file has every line of its content, in the canonical order, with a
\* line between </header> and the weights
WholeCanonicalFile ==
    /\ file.exists /\ file.complete /\ HeaderStart > 0
    /\ file.layout = Canonical /\ file.drop = "none" /\ file.gap > 0

\* the output-layer neuron count the file declares
DeclaredOutputs == file.content.neurons[Len(file.content.neurons)]

\* C14: when the [output names] block lists more or fewer names than the
\* output layer has neurons (the input names being listed as declared),
\* ReadMLPFile raises an error, and no line outside the block is ever stored
\* as an output name
C14_OutputNameCountIsChecked ==
    (Finished /\ WholeCanonicalFile
       /\ Len(file.content.input_names) = file.content.neurons[1]) =>
        /\ Len(file.content.output_names) # DeclaredOutputs =>
              reader.status = "error"
        /\ \A o \in DOMAIN reader.output_names :
              \E k \in 1..Len(file.content.output_names) :
                 reader.output_names[o] = file.content.output_names[k]

\* the data ReadMLPFile stores
StoredData(r) ==
    [n_layers |-> r.n_layers, n_neurons |-> r.n_neurons,
     weights_mat |-> r.weights_mat, biases_mat |-> r.biases_mat,
     activation_functions |-> r.activation_functions,
     input_names |-> r.input_names, output_names |-> r.output_names,
     input_norm |-> r.input_norm, output_norm |-> r.output_norm]

\* the file has every line of its content and every section, with
\* [number of layers] first
WholeLayersFirstFile ==
    /\ file.exists /\ file.complete /\ HeaderStart > 0
    /\ file.layout \in LayersFirstLayouts /\ file.drop = "none" /\ file.gap > 0

\* the same content with the sections in the canonical order
CanonicalFile ==
    MLPFile(file.content, Canonical, file.gap, "none", -1, file.newline)

\* C15: the data stored by a successful ReadMLPFile is the data stored from
\* the same sections in the canonical order, whatever the order of the
\* sections that follow [number of layers]
C15_SectionOrderIsIrrelevant ==
    (reader.status = "returned" /\ WholeLayersFirstFile) =>
        StoredData(reader)
          = StoredData(ReadMLPFile(CanonicalFile,
                                   [crash |-> FALSE, count |-> 0, layers |-> 1]))

InLayout(s) == \E k \in 1..Len(file.layout) : file.layout[k] = s

\* the bounds the file gives variable i in section s: the pair of its line,
\* or (0,1) when the section is absent or the line is blank
BoundsInFile(s, lines, i) ==
    IF InLayout(s) /\ lines[i] # Blank
    THEN <<stold(lines[i][1]), stold(lines[i][2])>>
    ELSE <<0, SCALE>>

\* the file has every line of its content, with [number of layers] first,
\* the neuron counts, and both name lists as declared
WholeFileWithCounts ==
    /\ file.exists /\ file.complete /\ HeaderStart > 0
    /\ file.drop = "none" /\ file.gap > 0
    /\ file.layout[1] = "layers" /\ InLayout("neurons")
    /\ Len(file.content.input_names) = file.content.neurons[1]
    /\ Len(file.content.output_names) = DeclaredOutputs

\* C16: after a successful ReadMLPFile every input and output variable has
\* the bounds of its `min max` line, and (0,1) when its line is blank or the
\* normalization section is absent
C16_BoundsAsInFile ==
    (reader.status = "returned" /\ WholeFileWithCounts) =>
        /\ reader.input_norm =
              [i \in 0..(file.content.neurons[1] - 1) |->
                  BoundsInFile("input norm", file.content.input_norm, i + 1)]
        /\ reader.output_norm =
              [o \in 0..(DeclaredOutputs - 1) |->
                  BoundsInFile("output norm", file.content.output_norm, o + 1)]

\* the input of neuron j of layer l + 1 that the values handed to SetWeight
\* give: its bias plus, over the neurons i of layer l, the value set for
\* (l, i, j) times the output of neuron i
InputFromSetWeights(l, j) ==
    LET from == TotalLayer(net, l)
    IN  TotalLayer(net, l + 1).neurons[j].bias
          + SumUpTo([i \in 0..(GetNNeurons(from) - 1) |->
                       Mul(weights_set[l][i][j], from.neurons[i].output)],
                    GetNNeurons(from) - 1)

\* C17: SetWeight(l, i, j, v) with i and j inside their layers writes inside
\* the sized weight tensor, and a Predict that evaluates the layers computes
\* the input of neuron j of layer l + 1 with v as the weight of neuron i of
\* layer l
C17_SetWeightIsFromItoJ ==
    /\ ~ oob
    /\ build = "sized" => ShapeInvariant
    /\ (call.made /\ Traversed) =>
          \A l \in 0..net.n_hidden_layers :
             \A j \in 0..(GetNNeurons(TotalLayer(net, l + 1)) - 1) :
                TotalLayer(net, l + 1).neurons[j].input = InputFromSetWeights(l, j)

\* a Predict that evaluated the layers after SetWeight(l, i, j, v) with
\* i # j, where the opposite weight differs and neuron i has a non-zero output
C17_Witness ==
    /\ call.made /\ Traversed /\ n_sets > 0
    /\ \E l \in 0..net.n_hidden_layers :
          \E i \in DOMAIN weights_set[l] :
             \E j \in DOMAIN weights_set[l][i] :
                /\ i # j
                /\ weights_set[l][i][j] \in SetValues
                /\ j \in DOMAIN weights_set[l] /\ i \in DOMAIN weights_set[l][j]
                /\ weights_set[l][j][i] \notin SetValues
                /\ TotalLayer(net, l).neurons[i].output # 0

\* every hidden layer and the output layer is linear
AllLinear(n) ==
    \A iLayer \in 1..(n.n_hidden_layers + 1) :
        n.activation_function_types[iLayer] = "LINEAR"

\* the product of the weight matrices from the input layer up to layer
\* iLayer: entry [j][k] for neuron j of that layer and input k
RECURSIVE WeightProduct(_, _)
WeightProduct(n, iLayer) ==
    IF iLayer = 0
    THEN [j \in 0..(NInputs(n) - 1) |->
            [k \in 0..(NInputs(n) - 1) |-> IF j = k THEN SCALE ELSE 0]]
    ELSE LET below == WeightProduct(n, iLayer - 1)
         IN  [j \in 0..(GetNNeurons(TotalLayer(n, iLayer)) - 1) |->
                [k \in 0..(NInputs(n) - 1) |->
                    SumUpTo([i \in DOMAIN below |->
                               Mul(n.weights_mat[iLayer - 1][j][i], below[i][k])],
                            Size(below) - 1)]]

InputSpan(n, k) == n.input_norm[k][2] - n.input_norm[k][1]

OutputSpan(n, o) == n.output_norm[o][2] - n.output_norm[o][1]

\* C18: on a network of linear layers, every Predict(x, true) leaves the
\* input-layer gradient 1/(inMax - inMin) on the diagonal and 0 off it, and
\* one that evaluates the layers leaves jacobian[o][k] =
\* (outMax[o] - outMin[o]) * P[o][k] / (inMax[k] - inMin[k]), P the product of
\* the weight matrices
C18_LinearJacobianIsWeightProduct ==
    (call.made /\ call.compute_gradient /\ AllLinear(net)) =>
        /\ \A i, k \in 0..(NInputs(net) - 1) :
              InputLayerOf(net).neurons[i].doutput_dinputs[k]
                = IF i = k THEN Div(SCALE, InputSpan(net, k)) ELSE 0
        /\ Traversed =>
              \A o \in 0..(NOutputs(net) - 1), k \in 0..(NInputs(net) - 1) :
                 net.dOutputs_dInputs[o][k]
                   = Div(Mul(OutputSpan(net, o),
                             WeightProduct(net, net.n_hidden_layers + 1)[o][k]),
                         InputSpan(net, k))

\* an evaluating Predict(x, true) on a linear network with two inputs, spans
\* other than 1 on both sides and a jacobian without a zero
C18_Witness ==
    /\ call.made /\ call.compute_gradient /\ Traversed /\ AllLinear(net)
    /\ NInputs(net) = 2
    /\ InputSpan(net, 0) # SCALE
    /\ OutputSpan(net, 0) # SCALE
    /\ \A k \in 0..1 : net.dOutputs_dInputs[0][k] # 0
    /\ net.dOutputs_dInputs[0][0] # net.dOutputs_dInputs[0][1]

\* the layers evaluated with the RELU case
ReluLayers(n) ==
    {iLayer \in 1..(n.n_hidden_layers + 1) :
        n.activation_function_types[iLayer] = "RELU"}

NeuronsOf(n, iLayer) == 0..(GetNNeurons(TotalLayer(n, iLayer)) - 1)

\* the gradient row that reaches neuron iNeuron from the layer below
PropagatedRow(n, iLayer, iNeuron) ==
    [iInput \in 0..(NInputs(n) - 1) |->
        ComputedOutputdInput(n, iLayer, iNeuron, iInput)]

\* C19: after a Predict that evaluates the layers, a neuron of a relu layer
\* with input x > 0 has output x and its propagated gradient row, and one with
\* x <= 0, x = 0 included, has output 0 and a gradient row of zeros
C19_ReluAtAndBelowZero ==
    (call.made /\ Traversed) =>
        \A iLayer \in ReluLayers(net) :
           \A iNeuron \in NeuronsOf(net, iLayer) :
              LET nrn == TotalLayer(net, iLayer).neurons[iNeuron]
              IN  /\ nrn.input = ComputeX(net, iLayer, iNeuron)
                  /\ nrn.output = IF nrn.input > 0 THEN nrn.input ELSE 0
                  /\ call.compute_gradient =>
                        nrn.doutput_dinputs
                          = IF nrn.input > 0
                            THEN PropagatedRow(net, iLayer, iNeuron)
                            ELSE ZeroRow(NInputs(net))

\* an evaluating Predict(x, true) that leaves one relu neuron at x = 0 with a
\* propagated gradient other than 0, and another at x > 0
C19_Witness ==
    /\ call.made /\ call.compute_gradient /\ Traversed
    /\ \E iLayer \in ReluLayers(net) :
          \E i, j \in NeuronsOf(net, iLayer) :
             /\ TotalLayer(net, iLayer).neurons[i].input = 0
             /\ PropagatedRow(net, iLayer, i) # ZeroRow(NInputs(net))
             /\ TotalLayer(net, iLayer).neurons[i].doutput_dinputs = ZeroRow(NInputs(net))
             /\ TotalLayer(net, iLayer).neurons[j].input > 0
             /\ TotalLayer(net, iLayer).neurons[j].doutput_dinputs # ZeroRow(NInputs(net))

\* C20: after every Predict(x, g) call, last_inputs equals the input vector x
\* of that call
C20_LastInputsAreTheCallInputs ==
    call.made => net.last_inputs = call.inputs

\* what construction fixes: layer and neuron counts, weights, biases,
\* activation kinds, normalization bounds and variable names
Structure(n) ==
    [input_names |-> n.input_names,
     output_names |-> n.output_names,
     n_hidden_layers |-> n.n_hidden_layers,
     inputLayer |-> n.inputLayer,
     outputLayer |-> n.outputLayer,
     hiddenLayers |-> n.hiddenLayers,
     total_layers |-> n.total_layers,
     weights_mat |-> n.weights_mat,
     activation_function_types |-> n.activation_function_types,
     input_norm |-> n.input_norm,
     output_norm |-> n.output_norm,
     layers |-> [id \in DOMAIN n.layers |->
                   [number_of_neurons |-> n.layers[id].number_of_neurons,
                    is_input |-> n.layers[id].is_input,
                    biases |-> [i \in DOMAIN n.layers[id].neurons |->
                                  n.layers[id].neurons[i].bias]]]]

\* the jacobian and the gradient of every neuron
Gradients(n) ==
    [dOutputs_dInputs |-> n.dOutputs_dInputs,
     layers |-> [id \in DOMAIN n.layers |->
                   [i \in DOMAIN n.layers[id].neurons |->
                      n.layers[id].neurons[i].doutput_dinputs]]]

\* C21: every Predict call leaves layer and neuron counts, weights, biases,
\* activation kinds, normalization bounds and variable names as they were,
\* and one with compute_gradient = false leaves the jacobian and every neuron
\* gradient as they were
C21_PredictFrame ==
    call.made =>
        /\ Structure(net) = Structure(before)
        /\ ~ call.compute_gradient => Gradients(net) = Gradients(before)

\* an evaluating Predict(x, false) after a Predict(x', true) that left a
\* jacobian other than 0, on output bounds with a span other than 1
C21_Witness ==
    /\ call.made /\ ~ call.compute_gradient /\ Traversed
    /\ prev_call.made /\ prev_call.compute_gradient
    /\ net.ANN_outputs # before.ANN_outputs
    /\ OutputSpan(net, 0) # SCALE
    /\ \E k \in 0..(NInputs(net) - 1) : net.dOutputs_dInputs[0][k] # 0

\* the file has every line of its content in the canonical order, with or
\* without a line between </header> and [weights per layer]
WholeFileAnyGap ==
    /\ file.exists /\ file.complete /\ HeaderStart > 0
    /\ file.layout = Canonical /\ file.drop = "none"

\* C22: ReadMLPFile finds [weights per layer] wherever it stands after
\* </header>, the line right after </header> included: on a whole file it
\* returns with every weight and bias read from its own position
C22_WeightsFoundRightAfterHeader ==
    (Finished /\ WholeFileAnyGap) =>
        /\ reader.status = "returned"
        /\ EveryValueFromItsPosition

\* the same for the files with a line between </header> and the tag
WeightsFoundAfterGap ==
    (Finished /\ WholeFileAnyGap /\ file.gap > 0) =>
        /\ reader.status = "returned"
        /\ EveryValueFromItsPosition

(***************************************************************************)
(* Properties of Predict calls from two threads.                           *)
(***************************************************************************)
Done(t) == t \in DOMAIN threads /\ threads[t].pc = "done"

\* the outputs thread t read are the forward pass of its own inputs
OwnOutputs(t) == threads[t].outputs = ForwardPass(net, threads[t].inputs)

\* a call that no other call overlapped is, step by step, Predict
StepsMakePredict ==
    \A t \in DOMAIN threads :
        (threads[t].pc = "returned" /\ ~ overlapped) =>
            net = Predict(before, threads[t].inputs, threads[t].compute_gradient)

\* C23: when the two calls are serialized, each caller reads the result of
\* its own inputs (and some interleaving of their steps leaves a caller with
\* outputs that are not the result of its inputs)
C23_SerializedCallsGiveOwnResult ==
    \A t \in DOMAIN threads : (Done(t) /\ ~ overlapped) => OwnOutputs(t)

\* the same once a layer has been evaluated
SerializedAfterEvaluation ==
    \A t \in DOMAIN threads :
        (Done(t) /\ ~ overlapped /\ threads[t].evaluated) => OwnOutputs(t)

\* no caller whose call evaluated the layers itself reads the result of
\* other inputs, interleaved or not
NoInterleavedWrongResult ==
    \A t \in DOMAIN threads :
        (Done(t) /\ ~ threads[t].same_point) => OwnOutputs(t)

(***************************************************************************)
(* Properties of the lists of a CIOMap.                                    *)
(***************************************************************************)
\* C24: after the construction of a CIOMap, MLP_indices, Input_Map and
\* Output_Map have the same length, entry k of each belongs to network
\* MLP_indices[k], MLP_indices is strictly increasing, and every stored list
\* of input and of output matches is non-empty
C24_MapListsAreParallel ==
    map_pc = "constructed" =>
        /\ Size(Input_Map) = Size(MLP_indices)
        /\ Size(Output_Map) = Size(MLP_indices)
        /\ \A k \in DOMAIN MLP_indices :
              /\ MLP_indices[k] \in DOMAIN MLP_collection
              /\ Input_Map[k] = FindVariableIndices(MLP_collection, MLP_indices[k],
                                                    call_inputs, TRUE)
              /\ Output_Map[k] = FindVariableIndices(MLP_collection, MLP_indices[k],
                                                     call_outputs, FALSE)
              /\ Size(Input_Map[k]) > 0
              /\ Size(Output_Map[k]) > 0
        /\ \A k, l \in DOMAIN MLP_indices :
              k < l => MLP_indices[k] < MLP_indices[l]

\* a map of two networks with different match lists
C24_Witness ==
    /\ map_pc = "constructed"
    /\ Size(MLP_indices) = 2
    /\ Input_Map[0] # Input_Map[1]
    /\ Output_Map[0] # Output_Map[1]

\* a map whose first entry is the second network: the first one matches
\* the inputs and not the outputs
SkippedFirstNetwork ==
    /\ map_pc = "constructed"
    /\ Size(MLP_indices) = 1
    /\ MLP_indices[0] = 1
    /\ HasInputMatch(0) /\ ~ HasOutputMatch(0)

====
